---- MODULE Spec2Model ----
(***************************************************************************)
(* Model of the Hive multi-agent runtime: the shared conversation context, *)
(* the tool registry / bridge / executor, the agent response arbitration   *)
(* (Agent.on_message), the router fan-out and the persistent scheduler.    *)
(*                                                                         *)
(* Texts are modelled as sequences of tokens; an absent Python value       *)
(* (None) is the string NoneV; instants are integer minutes.               *)
(***************************************************************************)
EXTENDS Integers, Sequences, FiniteSets, TLC

VARIABLES
    messages,      \* SharedContext.messages
    seen,          \* SharedContext._seen_message_ids
    now,           \* the wall clock, in seconds
    lastCall,      \* the most recent call of a public operation and its outcome
    agentTools,    \* AgentConfig.tools of every agent
    registry,      \* ToolRegistry.tools (name -> ToolConfig)
    connections,   \* MCPBridge.connections (the connected tool names)
    hasStore,      \* ToolExecutor.schedule_store is not None
    disk,          \* the job records of schedules.yaml
    uuids,         \* how many job identifiers uuid4 has handed out
    pkg,           \* which Agent class is bound: hive's or openbuden's
    bots,          \* every HiveBot: _reacted_message_ids, handlers in flight, responses
    om,            \* the Agent.on_message coroutines in flight, one per slot
    route,         \* the route_message call in flight and what it returned
    sched,         \* ScheduleRunner.run: its position, its tick, its flag
    firings,       \* every invocation of the scheduler's callback, over restarts
    crashes,       \* how many times the process was stopped and started again
    calls          \* how many calls the callers have made

ctxState == <<messages, seen>>
toolState == <<agentTools, registry, connections, hasStore, disk, uuids>>
agentState == <<pkg, bots, om, route, calls>>
schedState == <<sched, firings, crashes>>
vars == <<messages, seen, now, lastCall, agentTools, registry, connections, hasStore,
          disk, uuids, pkg, bots, om, route, calls, sched, firings, crashes>>

----------------------------------------------------------------------------
(* Bounds of the model *)

MaxMsgs == 2
MaxTime == 1
MaxJobs == 1
MaxCalls == 1
MaxCrashes == 1

----------------------------------------------------------------------------
(* Values *)

NoneV == "<None>"

Roles == {"user", "assistant"}
Names == {"a1", "a2", "user"}
MsgIds == {"m1", "m2"}

----------------------------------------------------------------------------
(* SharedContext  (hive/agent/context.py) *)

Message(role, content, name, ts) ==
    [role |-> role, content |-> content, name |-> name, timestamp |-> ts]

\* add_message without the seen-id test: every call appends.
add_message_nodedup(msgs, ids, role, content, name, message_id, ts) ==
    [messages |-> Append(msgs, Message(role, content, name, ts)),
     seen     |-> IF message_id # NoneV THEN ids \cup {message_id} ELSE ids]

\* add_message that puts the new message at the head of the history.
add_message_prepend(msgs, ids, role, content, name, message_id, ts) ==
    IF message_id # NoneV /\ message_id \in ids
    THEN [messages |-> msgs, seen |-> ids]
    ELSE [messages |-> <<Message(role, content, name, ts)>> \o msgs,
          seen     |-> IF message_id # NoneV THEN ids \cup {message_id} ELSE ids]

\* SharedContext.add_message: the context after the call.
add_message(msgs, ids, role, content, name, message_id, ts) ==
    IF message_id # NoneV /\ message_id \in ids
    THEN [messages |-> msgs, seen |-> ids]
    ELSE [messages |-> Append(msgs, Message(role, content, name, ts)),
          seen     |-> IF message_id # NoneV THEN ids \cup {message_id} ELSE ids]

\* SharedContext.get_history
get_history(msgs) == msgs

\* SharedContext.get_history_for_llm: "[name]: content" under the same role.
get_history_for_llm(msgs) ==
    [i \in 1..Len(msgs) |->
        [role |-> msgs[i].role,
         content |-> [author |-> msgs[i].name, body |-> msgs[i].content]]]

\* Python's list[-n:] : for n = 0 the slice is list[0:], the whole list.
get_last_n(msgs, n) ==
    IF n = 0 \/ n >= Len(msgs) THEN msgs
    ELSE SubSeq(msgs, Len(msgs) - n + 1, Len(msgs))


----------------------------------------------------------------------------
(* Tool values *)

ToolNames == {"gmail", "calendar", "schedule"}
ToolActions == {"send", "read"}

\* ToolConfig (hive/config/schema.py): name, enabled, permissions.
ToolConfig(name, enabled, permissions) ==
    [name |-> name, enabled |-> enabled, permissions |-> permissions]

GmailConfigs ==
    {ToolConfig("gmail", e, p) : e \in BOOLEAN, p \in {{}, {"send"}}}

ScheduleConfigs ==
    {ToolConfig("schedule", FALSE, {"send"}), ToolConfig("schedule", TRUE, {})}

\* The tool lists of the model. A tools.yaml holds any list of entries, and
\* nothing keeps two entries from carrying the same name.
ToolLists ==
    {<<>>} \cup {<<c>> : c \in GmailConfigs \cup ScheduleConfigs}
           \cup {<<ToolConfig("gmail", FALSE, {"send"}), ToolConfig("gmail", TRUE, {"send"})>>,
                 <<ToolConfig("gmail", TRUE, {"send"}), ToolConfig("gmail", FALSE, {"send"})>>,
                 <<ToolConfig("gmail", TRUE, {}), ToolConfig("gmail", TRUE, {"send"})>>,
                 <<ToolConfig("gmail", TRUE, {"send"}), ToolConfig("gmail", TRUE, {})>>}

AgentNames == {"a1", "a2"}

\* One comma-separated entry of a params fragment: "key=value" (split at the
\* first "="), or a bare word with no "=".
Item(key, value) == [key |-> key, eq |-> TRUE, value |-> value]
Bare(word) == [key |-> word, eq |-> FALSE, value |-> ""]

\* str.strip() on the words of the model
strip(s) ==
    CASE s = " to"               -> "to"
      [] s = " subject"          -> "subject"
      [] s = "Hi "               -> "Hi"
      [] s = " task"             -> "task"
      [] s = " interval_minutes" -> "interval_minutes"
      [] s = " cron"             -> "cron"
      [] s = " job_id"           -> "job_id"
      [] s = " foo"              -> "foo"
      [] s = " "                 -> ""
      [] s = " gmail "           -> "gmail"
      [] s = " schedule "        -> "schedule"
      [] s = " send "            -> "send"
      [] s = " SEND "            -> "SEND"
      [] s = " cron "            -> "cron"
      [] s = " thanks"           -> "thanks"
      [] s = " NONE"             -> "NONE"
      [] s = " none"             -> "none"
      [] OTHER                   -> s

NoParams == [k \in {} |-> ""]

\* _parse_params where the first occurrence of a key wins.
RECURSIVE _parse_params_firstwins(_)
_parse_params_firstwins(items) ==
    IF Len(items) = 0 THEN NoParams
    ELSE LET prev == _parse_params_firstwins(SubSeq(items, 1, Len(items) - 1))
             item == items[Len(items)]
             key == strip(item.key)
             value == strip(item.value)
         IN IF ~item.eq \/ key = "" \/ key \in DOMAIN prev THEN prev
            ELSE [k \in DOMAIN prev \cup {key} |->
                    IF k = key THEN value ELSE prev[k]]

\* Agent._parse_params: the mapping built from the entries, left to right.
RECURSIVE _parse_params(_)
_parse_params(items) ==
    IF Len(items) = 0 THEN NoParams
    ELSE LET prev == _parse_params(SubSeq(items, 1, Len(items) - 1))
             item == items[Len(items)]
             key == strip(item.key)
             value == strip(item.value)
         IN IF ~item.eq \/ key = "" THEN prev
            ELSE [k \in DOMAIN prev \cup {key} |->
                    IF k = key THEN value ELSE prev[k]]

\* dict.get(key): NoneV when the key is absent
Get(params, key) == IF key \in DOMAIN params THEN params[key] ELSE NoneV

\* Params fragments an agent may write, as their comma-separated entries
WriteInterval == <<Item("type", "interval"), Item(" interval_minutes", "2"), Item(" task", "t1")>>
WriteCron == <<Item("type", "cron"), Item(" cron", "30 14"), Item(" task", "t1")>>
WriteBadCron == <<Item("type", "cron"), Item(" cron", "99 99"), Item(" task", "t1")>>
WriteNegative == <<Item("type", "interval"), Item(" interval_minutes", "-5"), Item(" task", "t1")>>
WriteNoMinutes == <<Item("type", "interval"), Item(" task", "t1")>>
ListJobs == <<Item("action", "LIST")>>
DeleteJob == <<Item("action", "delete"), Item(" job_id", "j1")>>
DeleteNothing == <<Item("action", "delete")>>
SendMail == <<Item("to", "a@b.com"), Bare(" foo"), Item(" subject", "Hi ")>>

----------------------------------------------------------------------------
(* ScheduleStore  (hive/tools/scheduler.py) *)

SecondsPerMinute == 60
SleepSeconds == 30
SecondsPerDay == 86400
DefaultMinutes == 5

\* int(value) on the strings of the model: {} stands for ValueError.
int(s) ==
    CASE s = "2"  -> {2}
      [] s = "1"  -> {1}
      [] s = "0"  -> {0}
      [] s = "-5" -> {-5}
      [] s = "30" -> {30}
      [] s = "14" -> {14}
      [] s = "99" -> {99}
      [] s = "7"  -> {7}
      [] OTHER    -> {}

\* _safe_int on a string parameter (None stays None, ValueError becomes None)
_safe_int(value) == IF value = NoneV THEN {} ELSE int(value)

\* str.split() on the cron expressions of the model
split(expr) ==
    CASE expr = "30 14"  -> <<"30", "14">>
      [] expr = "30 14 * * *" -> <<"30", "14", "*", "*", "*">>
      [] expr = "0 0"    -> <<"0", "0">>
      [] expr = "99 99"  -> <<"99", "99">>
      [] expr = "* *"    -> <<"*", "*">>
      [] expr = "30"     -> <<"30">>
      [] OTHER           -> <<>>

OrZero(o) == IF o = {} THEN 0 ELSE CHOOSE v \in o : TRUE

\* _parse_cron: <<minute, hour>>
_parse_cron(expr) ==
    LET parts == split(expr)
    IN IF Len(parts) < 2 THEN <<0, 0>>
       ELSE <<OrZero(_safe_int(parts[1])), OrZero(_safe_int(parts[2]))>>

\* datetime.replace(second=0, microsecond=0, minute=m, hour=h) on an instant
\* in seconds: the same day at h:m:00.
replace(current, minute, hour) ==
    (current \div SecondsPerDay) * SecondsPerDay
        + hour * 3600 + minute * SecondsPerMinute

Truthy(o) == o # {} /\ o # {0}

\* _compute_next_run that adds the interval as seconds.
_compute_next_run_seconds(schedule_type, interval_minutes, cron, current) ==
    IF schedule_type = "interval" /\ Truthy(interval_minutes)
    THEN [raised |-> FALSE, value |-> current + OrZero(interval_minutes)]
    ELSE IF schedule_type = "cron" /\ cron # NoneV /\ cron # ""
    THEN LET mh == _parse_cron(cron)
             candidate == replace(current, mh[1], mh[2])
         IN IF mh[1] \notin 0..59 \/ mh[2] \notin 0..23
            THEN [raised |-> TRUE, value |-> current]
            ELSE [raised |-> FALSE,
                  value |-> IF candidate <= current
                            THEN candidate + SecondsPerDay ELSE candidate]
    ELSE [raised |-> FALSE, value |-> current + DefaultMinutes * SecondsPerMinute]

\* _compute_next_run whose fallback is one minute.
_compute_next_run_shortdefault(schedule_type, interval_minutes, cron, current) ==
    IF schedule_type = "interval" /\ Truthy(interval_minutes)
    THEN [raised |-> FALSE,
          value |-> current + OrZero(interval_minutes) * SecondsPerMinute]
    ELSE IF schedule_type = "cron" /\ cron # NoneV /\ cron # ""
    THEN LET mh == _parse_cron(cron)
             candidate == replace(current, mh[1], mh[2])
         IN IF mh[1] \notin 0..59 \/ mh[2] \notin 0..23
            THEN [raised |-> TRUE, value |-> current]
            ELSE [raised |-> FALSE,
                  value |-> IF candidate <= current
                            THEN candidate + SecondsPerDay ELSE candidate]
    ELSE [raised |-> FALSE, value |-> current + SecondsPerMinute]

\* _compute_next_run that keeps a candidate equal to the current instant.
_compute_next_run_keepsnow(schedule_type, interval_minutes, cron, current) ==
    IF schedule_type = "interval" /\ Truthy(interval_minutes)
    THEN [raised |-> FALSE,
          value |-> current + OrZero(interval_minutes) * SecondsPerMinute]
    ELSE IF schedule_type = "cron" /\ cron # NoneV /\ cron # ""
    THEN LET mh == _parse_cron(cron)
             candidate == replace(current, mh[1], mh[2])
         IN IF mh[1] \notin 0..59 \/ mh[2] \notin 0..23
            THEN [raised |-> TRUE, value |-> current]
            ELSE [raised |-> FALSE,
                  value |-> IF candidate < current
                            THEN candidate + SecondsPerDay ELSE candidate]
    ELSE [raised |-> FALSE, value |-> current + DefaultMinutes * SecondsPerMinute]

\* _compute_next_run: [raised, value]; raised is the ValueError of
\* datetime.replace for a minute or an hour out of range.
_compute_next_run(schedule_type, interval_minutes, cron, current) ==
    IF schedule_type = "interval" /\ Truthy(interval_minutes)
    THEN [raised |-> FALSE,
          value |-> current + OrZero(interval_minutes) * SecondsPerMinute]
    ELSE IF schedule_type = "cron" /\ cron # NoneV /\ cron # ""
    THEN LET mh == _parse_cron(cron)
             candidate == replace(current, mh[1], mh[2])
         IN IF mh[1] \notin 0..59 \/ mh[2] \notin 0..23
            THEN [raised |-> TRUE, value |-> current]
            ELSE [raised |-> FALSE,
                  value |-> IF candidate <= current
                            THEN candidate + SecondsPerDay ELSE candidate]
    ELSE [raised |-> FALSE, value |-> current + DefaultMinutes * SecondsPerMinute]

\* datetime.isoformat / datetime.fromisoformat: the text of an instant.
isoformat(t) == <<"iso", t>>
_parse_datetime(value) == IF value[1] = "iso" THEN {value[2]} ELSE {}

ScheduledJob(job_id, agent_name, task, schedule_type, interval_minutes, cron, channel_id, next_run) ==
    [job_id |-> job_id, agent_name |-> agent_name, task |-> task,
     schedule_type |-> schedule_type, interval_minutes |-> interval_minutes,
     cron |-> cron, channel_id |-> channel_id, next_run |-> next_run]

\* A schedules.yaml whose top level is not a list but a mapping that holds
\* the records: the file is written as the records behind a marker.
MappingDoc == [doc |-> "mapping"]
AsMapping(file) == <<MappingDoc>> \o file

\* isinstance(data, list)
IsListDoc(file) == IF file = <<>> THEN TRUE ELSE "doc" \notin DOMAIN file[1]

\* ScheduleStore.load_jobs: the records of the file, cron "" read as None;
\* no record when the document is not a list.
load_jobs(file) ==
    IF ~IsListDoc(file) THEN <<>>
    ELSE [i \in 1..Len(file) |->
            [file[i] EXCEPT !.cron = IF file[i].cron = "" THEN NoneV ELSE @]]

\* ScheduleStore.save_jobs: the file after writing the list.
save_jobs(jobs) == jobs

\* uuid4(): the n-th fresh identifier.
JobIds == <<"j1", "j2", "j3", "j4">>
uuid4(n) == JobIds[n + 1]

\* ScheduleStore.add_job: [raised, job, file]
add_job(file, n, current, agent_name, task, schedule_type, interval_minutes, cron, channel_id) ==
    LET jobs == load_jobs(file)
        nr == _compute_next_run(schedule_type, interval_minutes, cron, current)
        job == ScheduledJob(uuid4(n), agent_name, task, schedule_type,
                            interval_minutes, cron, channel_id,
                            isoformat(nr.value))
    IN IF nr.raised
       THEN [raised |-> TRUE, job |-> job, file |-> file]
       ELSE [raised |-> FALSE, job |-> job,
             file |-> save_jobs(Append(jobs, job))]

\* ScheduleStore.list_jobs
list_jobs(file, agent_name) ==
    LET Mine(j) == agent_name = NoneV \/ j.agent_name = agent_name
    IN SelectSeq(load_jobs(file), Mine)

\* remove_job that removes the job of that id whoever owns it.
remove_job_anyowner(file, job_id, agent_name) ==
    LET jobs == load_jobs(file)
        Keep(j) == j.job_id # job_id
        removed == \E i \in 1..Len(jobs) : jobs[i].job_id = job_id
    IN [removed |-> removed,
        file |-> IF removed THEN save_jobs(SelectSeq(jobs, Keep)) ELSE file]

\* ScheduleStore.remove_job: [removed, file]
remove_job(file, job_id, agent_name) ==
    LET jobs == load_jobs(file)
        Hit(j) == j.job_id = job_id
                    /\ (agent_name = NoneV \/ j.agent_name = agent_name)
        Keep(j) == ~Hit(j)
        removed == \E i \in 1..Len(jobs) : Hit(jobs[i])
    IN [removed |-> removed,
        file |-> IF removed THEN save_jobs(SelectSeq(jobs, Keep)) ELSE file]

\* update_job that appends the job when no record has its id.
update_job_upsert(file, job) ==
    LET jobs == load_jobs(file)
    IN IF \E i \in 1..Len(jobs) : jobs[i].job_id = job.job_id
       THEN save_jobs([i \in 1..Len(jobs) |->
                         IF jobs[i].job_id = job.job_id THEN job ELSE jobs[i]])
       ELSE save_jobs(Append(jobs, job))

\* ScheduleStore.update_job: the file after replacing the job of that id.
update_job(file, job) ==
    LET jobs == load_jobs(file)
    IN save_jobs([i \in 1..Len(jobs) |->
                    IF jobs[i].job_id = job.job_id THEN job ELSE jobs[i]])

----------------------------------------------------------------------------
(* ToolRegistry  (hive/tools/registry.py) *)

\* ToolRegistry.register: the tools mapping after the call (name -> config).
register(tools, tool_config) ==
    [n \in DOMAIN tools \cup {tool_config.name} |->
        IF n = tool_config.name THEN tool_config ELSE tools[n]]

\* ToolRegistry.get_tool: {} for None
get_tool(tools, name) == IF name \in DOMAIN tools THEN {tools[name]} ELSE {}

\* A ToolRegistry after construction: no tool
NoTools == [n \in {} |-> NoneV]

\* The registration of AgentManager.setup that does not look for the name.
setup_register_always(tools, tool) == register(tools, tool)

\* AgentManager.setup for one tool of one agent: register it unless a tool of
\* that name is registered.
setup_register(tools, tool) ==
    IF get_tool(tools, tool.name) = {} THEN register(tools, tool) ELSE tools

\* AgentManager.setup: its loop over the tools of a list
RECURSIVE RegisterAll(_, _)
RegisterAll(tools, list) ==
    IF list = <<>> THEN tools
    ELSE RegisterAll(setup_register(tools, Head(list)), Tail(list))

\* The registry AgentManager.setup builds from the agents' tool lists, the
\* agents taken in the order load_all_agents returns them.
Registered(tool_lists) == RegisterAll(NoTools, tool_lists["a1"] \o tool_lists["a2"])

\* Index of the first entry of the list with that name, 0 when there is none:
\* next((item for item in agent_tools if item.name == tool_name), None)
FirstNamed(agent_tools, tool_name) ==
    IF \E i \in 1..Len(agent_tools) : agent_tools[i].name = tool_name
    THEN CHOOSE i \in 1..Len(agent_tools) :
            /\ agent_tools[i].name = tool_name
            /\ \A k \in 1..(i - 1) : agent_tools[k].name # tool_name
    ELSE 0

\* has_permission that forgets the enabled flag.
has_permission_noflag(agent_name, tool_name, action, agent_tools) ==
    LET i == FirstNamed(agent_tools, tool_name)
    IN IF i = 0 THEN FALSE ELSE action \in agent_tools[i].permissions

\* ToolRegistry.has_permission
has_permission(agent_name, tool_name, action, agent_tools) ==
    LET i == FirstNamed(agent_tools, tool_name)
    IN IF i = 0 \/ ~agent_tools[i].enabled
       THEN FALSE
       ELSE action \in agent_tools[i].permissions

----------------------------------------------------------------------------
(* MCPBridge  (hive/tools/mcp_bridge.py) *)

NoResult == [kind |-> "None"]

\* MCPBridge.connect: the connections after the call.
connect(conns, tool_name) == conns \cup {tool_name}

\* MCPBridge.execute: the structured result, None when unconnected.
execute(conns, tool_name, action, params) ==
    IF tool_name \notin conns
    THEN NoResult
    ELSE [kind |-> "bridge", tool |-> tool_name, action |-> action,
          params |-> params]

\* MCPBridge.is_connected
is_connected(conns, tool_name) == tool_name \in conns

----------------------------------------------------------------------------
(* ToolExecutor  (hive/tools/executor.py) *)

\* str.lower() on the action words of the model
lower(s) ==
    CASE s = "LIST"   -> "list"
      [] s = "Delete" -> "delete"
      [] s = "SEND"   -> "send"
      [] s = "Send"   -> "send"
      [] s = " Cron " -> " cron "
      [] OTHER        -> s

StrOrEmpty(v) == IF v = NoneV THEN "" ELSE v

\* What a run did: whether the permission check passed, whether
\* MCPBridge.execute was invoked, which ScheduleStore operation ran ("none",
\* "list_jobs", "remove_job", "add_job"), the value returned, whether an
\* exception left the call, and the store and identifier counter afterwards.
Outcome(allowed, bridge, storeOp, result, raised, file, n) ==
    [allowed |-> allowed, bridge |-> bridge, storeOp |-> storeOp,
     result |-> result, raised |-> raised, file |-> file, uuids |-> n]

\* ToolExecutor._handle_schedule (the store is present)
_handle_schedule(file, n, current, agent_name, params) ==
    LET task == StrOrEmpty(Get(params, "task"))
        schedule_type == StrOrEmpty(Get(params, "type"))
        interval == Get(params, "interval_minutes")
        cron == IF Get(params, "cron") \in {NoneV, ""} THEN NoneV
                ELSE Get(params, "cron")
        channel_id == Get(params, "channel_id")
        action == lower(StrOrEmpty(Get(params, "action")))
    IN IF action = "list"
       THEN Outcome(TRUE, FALSE, "list_jobs",
                    [kind |-> "schedule", status |-> "ok",
                     jobs |-> list_jobs(file, agent_name)],
                    FALSE, file, n)
       ELSE IF action = "delete"
       THEN LET job_id == StrOrEmpty(Get(params, "job_id"))
                r == remove_job(file, job_id, agent_name)
            IN IF job_id = ""
               THEN Outcome(TRUE, FALSE, "none", NoResult, FALSE, file, n)
               ELSE Outcome(TRUE, FALSE, "remove_job",
                            [kind |-> "schedule",
                             status |-> IF r.removed THEN "ok" ELSE "not_found",
                             job_id |-> job_id],
                            FALSE, r.file, n)
       ELSE IF task = "" \/ schedule_type \notin {"interval", "cron"}
       THEN Outcome(TRUE, FALSE, "none", NoResult, FALSE, file, n)
       ELSE LET r == add_job(file, n, current, agent_name, task, schedule_type,
                             _safe_int(interval), cron, _safe_int(channel_id))
            IN IF r.raised
               THEN Outcome(TRUE, FALSE, "add_job", NoResult, TRUE, file, n)
               ELSE Outcome(TRUE, FALSE, "add_job",
                            [kind |-> "schedule", status |-> "scheduled",
                             job_id |-> r.job.job_id,
                             next_run |-> r.job.next_run],
                            FALSE, r.file, n + 1)

\* ToolExecutor.run that asks the registry about the schedule tool as well.
run_no_exemption(conns, store, file, n, current, agent_name, agent_tools, tool_name, action, params) ==
    LET allowed == has_permission(agent_name, tool_name, action, agent_tools)
    IN IF ~allowed
       THEN Outcome(FALSE, FALSE, "none", NoResult, FALSE, file, n)
       ELSE IF tool_name = "schedule" /\ store
       THEN _handle_schedule(file, n, current, agent_name, params)
       ELSE Outcome(TRUE, TRUE, "none",
                    execute(conns, tool_name, action, params), FALSE, file, n)

\* ToolExecutor.run that hands the tool call's action to the schedule handler.
run_action_selects(conns, store, file, n, current, agent_name, agent_tools, tool_name, action, params) ==
    LET allowed == IF tool_name = "schedule" THEN TRUE
                   ELSE has_permission(agent_name, tool_name, action, agent_tools)
    IN IF ~allowed
       THEN Outcome(FALSE, FALSE, "none", NoResult, FALSE, file, n)
       ELSE IF tool_name = "schedule" /\ store
       THEN _handle_schedule(file, n, current, agent_name,
                             [k \in DOMAIN params \cup {"action"} |->
                                IF k = "action" THEN action ELSE params[k]])
       ELSE Outcome(TRUE, TRUE, "none",
                    execute(conns, tool_name, action, params), FALSE, file, n)

\* ToolExecutor.run
run(conns, store, file, n, current, agent_name, agent_tools, tool_name, action, params) ==
    LET allowed == IF tool_name = "schedule" THEN TRUE
                   ELSE has_permission(agent_name, tool_name, action, agent_tools)
    IN IF ~allowed
       THEN Outcome(FALSE, FALSE, "none", NoResult, FALSE, file, n)
       ELSE IF tool_name = "schedule" /\ store
       THEN _handle_schedule(file, n, current, agent_name, params)
       ELSE Outcome(TRUE, TRUE, "none",
                    execute(conns, tool_name, action, params), FALSE, file, n)

----------------------------------------------------------------------------
(* Texts of the conversation *)

\* The tool-call expression written in a text: none, one that the grammar
\* [TOOL: t | action: a | params: ...] matches, or a bracket the pattern does
\* not match (kind "broken": no params part).
NoCallW == [kind |-> "none", tool |-> "", action |-> "", items |-> <<>>]
CallW(tool, action, items) ==
    [kind |-> "call", tool |-> tool, action |-> action, items |-> items]
BrokenW(tool, action) ==
    [kind |-> "broken", tool |-> tool, action |-> action, items |-> <<>>]

\* The result block a reply carries: none, the "[Tool Result: tool]" suffix,
\* or (fmt) the formatter's rendering of the result.
NoBlock == [tool |-> NoneV, result |-> NoResult, fmt |-> FALSE]
Block(tool, result, fmt) == [tool |-> tool, result |-> result, fmt |-> fmt]

\* A text: its words, the tool-call expression in it, the block appended.
Text(words, call) == [words |-> words, call |-> call, block |-> NoBlock]
EmptyText == Text(<<>>, NoCallW)

\* The inbound messages of the model
Texts == {Text(<<"hi">>, NoCallW), Text(<<"@a1", "hi">>, NoCallW)}

\* bool(text): a non-empty string
NonEmpty(text) == text.words # <<>> \/ text.call.kind # "none"

\* What the completion service may answer (NoneV: the call failed).
Completions ==
    { Text(<<"yes">>, NoCallW),
      Text(<<"NONE">>, NoCallW),
      EmptyText,
      Text(<<"ok">>, CallW(" gmail ", " SEND ", SendMail)),
      Text(<<"ok">>, CallW("gmail", "read", SendMail)),
      Text(<<"ok">>, CallW(" schedule ", "write", WriteInterval)),
      Text(<<"ok">>, CallW("schedule", "write", WriteBadCron)),
      Text(<<"ok">>, BrokenW("gmail", "send")) }

----------------------------------------------------------------------------
(* Agent  (hive/agent/agent.py, openbuden/agent/agent.py) *)

\* str.upper() on the words of the model
upper(w) ==
    CASE w = "yes"  -> "YES"
      [] w = "none" -> "NONE"
      [] w = "ok"   -> "OK"
      [] OTHER      -> w

\* line.upper() up to the colon
upperLabel(w) ==
    CASE w = "reply" -> "REPLY"
      [] w = "react" -> "REACT"
      [] OTHER       -> w

\* "YES" in response.upper()
ContainsYES(text) == \E i \in 1..Len(text.words) : upper(text.words[i]) = "YES"

\* f"@{self.name}" in message
At(name) == CASE name = "a1" -> "@a1" [] name = "a2" -> "@a2" [] OTHER -> "@"
Mentions(text, name) == \E i \in 1..Len(text.words) : text.words[i] = At(name)

\* Agent._parse_tool_call: {} when the pattern does not match.
_parse_tool_call(response) ==
    IF response.call.kind # "call" THEN {}
    ELSE {[tool_name |-> strip(response.call.tool),
           action |-> lower(strip(response.call.action)),
           params |-> _parse_params(response.call.items)]}

\* PromptBuilder.build_messages: system prompt, history, the new message.
build_messages(agent, conversation_history, new_message) ==
    <<[role |-> "system", content |-> [author |-> agent, body |-> EmptyText]]>>
        \o conversation_history
        \o <<[role |-> "user", content |-> [author |-> NoneV, body |-> new_message]]>>

NoTool == [ran |-> FALSE, tool_name |-> "", action |-> "", allowed |-> FALSE,
           bridge |-> FALSE, storeOp |-> "none", raised |-> FALSE]

\* What on_message hands back: None, a text (reply, or "[REACTION: e]"), or
\* an exception.
ReturnNone == [kind |-> "None", text |-> EmptyText, via |-> "none"]
ReturnText(text, via) == [kind |-> "text", text |-> text, via |-> via]
Raise(exc) == [kind |-> "raise", text |-> EmptyText, via |-> exc]

\* An idle slot, and the coroutine of a call on entry. llm lists the
\* completion calls made so far; got lists what the judgment call and the
\* reaction call returned; raw is the completion the reply was built on.
Idle ==
    [pc |-> "idle", caller |-> "none", agent |-> "", message |-> EmptyText,
     sender |-> "", override |-> "None", record |-> FALSE, mid |-> NoneV,
     ctx |-> NoneV, llm |-> <<>>, got |-> <<>>, prompt |-> <<>>,
     raw |-> EmptyText,
     failed |-> FALSE, answered |-> FALSE, tool |-> NoTool,
     pending |-> NoBlock,
     result |-> ReturnNone]

Coroutine(caller, agent, message, sender, override, record, mid, ctx) ==
    [Idle EXCEPT !.pc = "entry", !.caller = caller, !.agent = agent,
                 !.message = message, !.sender = sender,
                 !.override = override, !.record = record, !.mid = mid,
                 !.ctx = ctx]

Finish(t, result) == [t EXCEPT !.pc = "done", !.result = result]

\* The completion request is built from the history as it is now, and sent.
AskReply(t, msgs) ==
    [t EXCEPT !.pc = "reply", !.llm = Append(@, "reply"),
              !.prompt = build_messages(t.agent, get_history_for_llm(msgs),
                                        t.message)]

AskJudge(t) == [t EXCEPT !.pc = "judge", !.llm = Append(@, "judge")]
AskReact(t) == [t EXCEPT !.pc = "react", !.llm = Append(@, "react")]

\* What HiveLLMClient.chat returns: the completion, or None (ok = FALSE) when
\* the service raised.
ChatFailed == [ok |-> FALSE, text |-> EmptyText]
ChatResults == {ChatFailed} \cup {[ok |-> TRUE, text |-> c] : c \in Completions}

Ctx(msgs, ids) == [messages |-> msgs, seen |-> ids]

\* on_message that answers its own messages too (no self-filter).
Entry_nofilter(msgs, ids, t) ==
    LET c == IF t.record
             THEN add_message(msgs, ids, "user", t.message, t.sender, t.mid, now)
             ELSE Ctx(msgs, ids)
    IN [messages |-> c.messages, seen |-> c.seen,
        task |-> IF t.override = "None"
                 THEN IF Mentions(t.message, t.agent)
                      THEN AskReply(t, c.messages) ELSE AskJudge(t)
                 ELSE IF t.override = "True"
                      THEN AskReply(t, c.messages) ELSE AskReact(t)]

\* on_message that takes any override that is present as "respond".
Entry_anyoverride(msgs, ids, t) ==
    LET c == IF t.record
             THEN add_message(msgs, ids, "user", t.message, t.sender, t.mid, now)
             ELSE Ctx(msgs, ids)
    IN [messages |-> c.messages, seen |-> c.seen,
        task |-> IF t.sender = t.agent THEN Finish(t, ReturnNone)
                 ELSE IF t.override = "None"
                 THEN IF Mentions(t.message, t.agent)
                      THEN AskReply(t, c.messages) ELSE AskJudge(t)
                 ELSE AskReply(t, c.messages)]

\* Agent.on_message from its entry to its first completion call (or to its
\* return): the context afterwards and the coroutine. hive's on_message has
\* no context parameter, so a call that passes one raises TypeError.
Entry(msgs, ids, t) ==
    IF pkg = "hive" /\ t.ctx # NoneV
    THEN [messages |-> msgs, seen |-> ids,
          task |-> Finish(t, Raise("TypeError"))]
    ELSE LET c == IF t.record
                  THEN add_message(msgs, ids, "user", t.message, t.sender,
                                   t.mid, now)
                  ELSE Ctx(msgs, ids)
         IN [messages |-> c.messages, seen |-> c.seen,
             task |-> IF t.sender = t.agent THEN Finish(t, ReturnNone)
                      ELSE IF t.override = "None"
                      THEN IF Mentions(t.message, t.agent)
                           THEN AskReply(t, c.messages) ELSE AskJudge(t)
                      ELSE IF t.override = "True"
                           THEN AskReply(t, c.messages) ELSE AskReact(t)]

\* should_respond that takes every non-empty answer as a yes.
Judged_anyanswer(t, r, msgs) ==
    IF r.ok /\ NonEmpty(r.text)
    THEN AskReply([t EXCEPT !.got = Append(@, r)], msgs)
    ELSE AskReact([t EXCEPT !.got = Append(@, r)])

\* Agent.should_respond returns, and on_message goes on.
Judged(t, r, msgs) ==
    IF r.ok /\ NonEmpty(r.text) /\ ContainsYES(r.text)
    THEN AskReply([t EXCEPT !.got = Append(@, r)], msgs)
    ELSE AskReact([t EXCEPT !.got = Append(@, r)])

\* Agent._decide_reaction_to_message returns, and on_message returns.
Reacted(t, r) ==
    LET t1 == [t EXCEPT !.got = Append(@, r)]
    IN IF ~r.ok \/ ~NonEmpty(r.text) THEN Finish(t1, ReturnNone)
       ELSE LET first == IF r.text.words = <<>> THEN "[TOOL:" ELSE r.text.words[1]
            IN IF upper(first) = "NONE" THEN Finish(t1, ReturnNone)
               ELSE Finish(t1, ReturnText(Text(<<"[REACTION:", first, "]">>,
                                               NoCallW), "reaction"))

\* f"{response}\n\n[Tool Result: {tool_name}]\n{result}"
WithBlock(response, block) == [response EXCEPT !.block = block]

\* Agent._format_schedule_result (openbuden)
_format_schedule_result(result) ==
    LET phrase ==
          IF result.status = "scheduled" THEN "Scheduled."
          ELSE IF result.status = "ok" /\ "jobs" \in DOMAIN result
          THEN IF result.jobs = <<>> THEN "No schedules found." ELSE "Schedules:"
          ELSE IF result.status = "ok" THEN "Removed schedule"
          ELSE IF result.status = "not_found" THEN "Schedule not found:"
          ELSE "Schedule updated."
    IN WithBlock(Text(<<phrase>>, NoCallW), Block("schedule", result, TRUE))

\* The commit: the reply is appended under the agent's name and returned.
Commit(t, response, msgs, ids, file, n) ==
    LET c == add_message(msgs, ids, "assistant", response, t.agent, NoneV, now)
    IN [messages |-> c.messages, seen |-> c.seen, file |-> file, uuids |-> n,
        task |-> Finish(t, ReturnText(response, "reply"))]

\* on_message after ToolExecutor.run returned (or raised): the reply that is
\* committed, or, in openbuden, the formatter's completion call.
AfterRun(t1, response, tool_call, out, msgs, ids) ==
    LET t2 == [t1 EXCEPT !.tool =
                 [ran |-> TRUE, tool_name |-> tool_call.tool_name,
                  action |-> tool_call.action, allowed |-> out.allowed,
                  bridge |-> out.bridge, storeOp |-> out.storeOp,
                  raised |-> out.raised]]
        block == Block(tool_call.tool_name, out.result, FALSE)
    IN IF out.raised
       THEN [messages |-> msgs, seen |-> ids, file |-> out.file,
             uuids |-> out.uuids, task |-> Finish(t2, Raise("ValueError"))]
       ELSE IF out.result = NoResult
       THEN Commit(t2, response, msgs, ids, out.file, out.uuids)
       ELSE IF pkg = "hive"
       THEN Commit(t2, WithBlock(response, block), msgs, ids, out.file,
                   out.uuids)
       ELSE IF tool_call.tool_name = "schedule"
       THEN Commit(t2, _format_schedule_result(out.result), msgs, ids,
                   out.file, out.uuids)
       ELSE [messages |-> msgs, seen |-> ids, file |-> out.file,
             uuids |-> out.uuids,
             task |-> [t2 EXCEPT !.pc = "format",
                                 !.llm = Append(@, "format"),
                                 !.pending = block]]

\* The params the tool runs with: openbuden adds the channel of the context.
WithChannel(params, ctx) ==
    IF pkg = "openbuden" /\ ctx # NoneV /\ "channel_id" \notin DOMAIN params
    THEN [k \in DOMAIN params \cup {"channel_id"} |->
            IF k = "channel_id" THEN (IF ctx = "None" THEN NoneV ELSE ctx)
            ELSE params[k]]
    ELSE params

\* on_message with the tool call found in the response
WithCall(t1, response, tool_call, msgs, ids, conns, store, file, n) ==
    AfterRun(t1, response, tool_call,
             run(conns, store, file, n, now, t1.agent, agentTools[t1.agent],
                 tool_call.tool_name, tool_call.action,
                 WithChannel(tool_call.params, t1.ctx)),
             msgs, ids)

\* on_message that commits an empty reply when the completion call failed.
Replied_commitsfailure(t, r, msgs, ids, conns, store, file, n) ==
    IF ~r.ok
    THEN Commit([t EXCEPT !.failed = TRUE], EmptyText, msgs, ids, file, n)
    ELSE IF _parse_tool_call(r.text) = {}
    THEN Commit([t EXCEPT !.raw = r.text, !.answered = TRUE], r.text, msgs, ids,
                file, n)
    ELSE WithCall([t EXCEPT !.raw = r.text, !.answered = TRUE], r.text,
                  CHOOSE x \in _parse_tool_call(r.text) : TRUE,
                  msgs, ids, conns, store, file, n)

\* The completion call of on_message returns: tool-call extraction, the tool
\* run, and the commit.
Replied(t, r, msgs, ids, conns, store, file, n) ==
    IF ~r.ok
    THEN [messages |-> msgs, seen |-> ids, file |-> file, uuids |-> n,
          task |-> Finish([t EXCEPT !.failed = TRUE], ReturnNone)]
    ELSE IF _parse_tool_call(r.text) = {}
    THEN Commit([t EXCEPT !.raw = r.text, !.answered = TRUE], r.text, msgs, ids,
                file, n)
    ELSE WithCall([t EXCEPT !.raw = r.text, !.answered = TRUE], r.text,
                  CHOOSE x \in _parse_tool_call(r.text) : TRUE,
                  msgs, ids, conns, store, file, n)

\* Agent._format_tool_result's completion call returns (openbuden).
Formatted(t, r, msgs, ids, file, n) ==
    IF r.ok /\ NonEmpty(r.text)
    THEN Commit(t, r.text, msgs, ids, file, n)
    ELSE Commit(t, WithBlock(t.raw, t.pending), msgs, ids, file, n)

\* The slots a coroutine of on_message runs in: one per agent for the calls
\* of the router and of direct callers, one for the scheduler's callback.
Slots == AgentNames \cup {"sched"}

\* AgentManager.agents in insertion order (load_all_agents sorts the names)
AgentOrder == <<"a1", "a2">>

NoRoute == [active |-> FALSE, kind |-> "none", responses |-> <<>>,
            failed |-> {}, answered |-> {}]

\* ScheduleRunner before run is called: now and jobs are the locals of the
\* tick, i the position of the for loop; fired and persisted list the
\* positions whose callback was invoked and whose next-run was written back,
\* stopAt the position run was at when stop() cleared the flag.
NotStarted ==
    [pc |-> "new", running |-> FALSE, now |-> 0, jobs |-> <<>>, i |-> 1,
     wake |-> 0, fired |-> <<>>, persisted |-> {}, stopAt |-> "never"]

----------------------------------------------------------------------------
(* Initial state, and the shared context called directly *)

NoCall == [op |-> "none"]

\* HiveBot after construction: no message reacted to, no on_reaction_add
\* handler in flight, nothing sent; events counts the reactions received.
NewBot == [reacted |-> {}, handlers |-> <<>>, out |-> <<>>, events |-> 0]
NoBots == [a \in AgentNames |-> NewBot]

\* The state after construction: an empty context, no connection, no
\* schedules file, and some configuration of the agents' tool lists.
Init ==
    /\ messages = <<>>
    /\ seen = {}
    /\ now = 0
    /\ lastCall = NoCall
    /\ agentTools \in [AgentNames -> ToolLists]
    /\ registry = Registered(agentTools)
    /\ connections = {}
    /\ hasStore \in BOOLEAN
    /\ disk = <<>>
    /\ uuids = 0
    /\ pkg \in {"hive", "openbuden"}
    /\ bots = NoBots
    /\ om = [s \in Slots |-> Idle]
    /\ route = NoRoute
    /\ calls = 0
    /\ sched = NotStarted
    /\ firings = <<>>
    /\ crashes = 0

CtxInit ==
    /\ Init
    /\ \A a \in AgentNames : agentTools[a] = <<>>
    /\ hasStore
    /\ pkg = "hive"
    /\ bots = NoBots

\* A caller invokes SharedContext.add_message with arbitrary arguments.
CtxAdd ==
    /\ \E role \in Roles, content \in Texts, name \in Names,
          message_id \in MsgIds \cup {NoneV} :
        LET r == add_message(messages, seen, role, content, name, message_id, now)
        IN /\ Len(r.messages) <= MaxMsgs
           /\ messages' = r.messages
           /\ seen' = r.seen
           /\ lastCall' = [op |-> "add_message", role |-> role,
                           content |-> content, name |-> name,
                           message_id |-> message_id,
                           dup |-> (message_id \in seen)]
    /\ UNCHANGED <<schedState, now, toolState, agentState>>

\* A caller reads the tail of the history.
CtxTail ==
    /\ \E n \in 0..MaxMsgs :
        lastCall' = [op |-> "get_last_n", n |-> n,
                     result |-> get_last_n(messages, n)]
    /\ UNCHANGED <<schedState, messages, seen, now, toolState, agentState>>

\* The clock advances.
Tick ==
    /\ now < MaxTime * SleepSeconds
    /\ now' = now + SleepSeconds
    /\ UNCHANGED <<schedState, messages, seen, lastCall, toolState, agentState>>

CtxNext == CtxAdd \/ CtxTail \/ Tick

SpecCtx == CtxInit /\ [][CtxNext]_vars

----------------------------------------------------------------------------
(* The tool executor, called directly *)

ParamChoices ==
    { _parse_params(r) : r \in {<<Bare(" ")>>, WriteInterval, WriteCron,
                                WriteBadCron, ListJobs, DeleteJob,
                                DeleteNothing} }

\* The actions a schedule tool call is written with
ScheduleActions == {"write", "list", "delete"}

BridgeParamChoices == { _parse_params(r) : r \in {<<Bare(" ")>>, SendMail} }

\* A caller invokes ToolExecutor.run for an agent with that agent's tool
\* list, naming one of the tools with one of the actions.
ToolRunWith(tools, actions, choices) ==
    \E a \in AgentNames, tool_name \in tools :
    \E action \in IF tool_name = "schedule" THEN ScheduleActions \cap actions
                  ELSE ToolActions :
    \E params \in IF tool_name = "schedule" THEN choices
                  ELSE BridgeParamChoices :
        LET out == run(connections, hasStore, disk, uuids, now, a,
                       agentTools[a], tool_name, action, params)
        IN /\ out.uuids <= MaxJobs
           /\ disk' = out.file
           /\ uuids' = out.uuids
           /\ lastCall' = [op |-> "run", agent |-> a, tool_name |-> tool_name,
                           action |-> action, params |-> params,
                           allowed |-> out.allowed, bridge |-> out.bridge,
                           storeOp |-> out.storeOp, result |-> out.result,
                           raised |-> out.raised]
           /\ UNCHANGED <<schedState, ctxState, now, agentTools, registry, connections, hasStore, agentState>>

ToolRun == ToolRunWith(ToolNames, ScheduleActions, ParamChoices)

\* A caller connects a tool to the bridge.
BridgeConnect ==
    \E tool_name \in {"gmail", "schedule"} :
        /\ connections' = connect(connections, tool_name)
        /\ lastCall' = [op |-> "connect", tool_name |-> tool_name]
        /\ UNCHANGED <<schedState, ctxState, now, agentTools, registry, hasStore, disk, uuids, agentState>>

ToolNext == ToolRun \/ BridgeConnect

ToolInit ==
    /\ Init
    /\ \A a \in AgentNames \ {"a1"} : agentTools[a] = <<>>
    /\ pkg = "hive"
    /\ bots = NoBots

SpecTool == ToolInit /\ [][ToolNext]_vars

----------------------------------------------------------------------------
(* Agents called directly and through the router *)

\* A completion call of the coroutine in slot s returns.
OmJudge(s) ==
    /\ om[s].pc = "judge"
    /\ \E r \in ChatResults : om' = [om EXCEPT ![s] = Judged(om[s], r, messages)]
    /\ UNCHANGED <<schedState, ctxState, now, lastCall, toolState, pkg, bots, route, calls>>

OmReact(s) ==
    /\ om[s].pc = "react"
    /\ \E r \in ChatResults : om' = [om EXCEPT ![s] = Reacted(om[s], r)]
    /\ UNCHANGED <<schedState, ctxState, now, lastCall, toolState, pkg, bots, route, calls>>

OmReplyWith(s, results) ==
    /\ om[s].pc = "reply"
    /\ \E r \in results :
        \E e \in {Replied(om[s], r, messages, seen, connections, hasStore, disk,
                          uuids)} :
           /\ e.uuids <= MaxJobs
           /\ messages' = e.messages
           /\ seen' = e.seen
           /\ disk' = e.file
           /\ uuids' = e.uuids
           /\ om' = [om EXCEPT ![s] = e.task]
    /\ UNCHANGED <<schedState, now, lastCall, agentTools, registry, connections, hasStore, pkg, bots, route,
                   calls>>

OmReply(s) == OmReplyWith(s, ChatResults)

OmFormat(s) ==
    /\ om[s].pc = "format"
    /\ \E r \in ChatResults :
        \E e \in {Formatted(om[s], r, messages, seen, disk, uuids)} :
           /\ messages' = e.messages
           /\ seen' = e.seen
           /\ om' = [om EXCEPT ![s] = e.task]
    /\ UNCHANGED <<schedState, now, lastCall, toolState, pkg, bots, route, calls>>

\* The senders and the (record_incoming, message_id) pairs of direct calls
CallArgs == {<<TRUE, NoneV>>, <<TRUE, "m1">>, <<FALSE, "m1">>}

\* A caller invokes Agent.on_message of agent a.
OmCall(a) ==
    /\ om[a].pc = "idle"
    /\ ~route.active
    /\ calls < MaxCalls
    /\ \E message \in Texts, sender \in {"user", a},
          override \in {"None", "True", "False"}, rm \in CallArgs :
        \E e \in {Entry(messages, seen,
                        Coroutine("api", a, message, sender, override, rm[1],
                                  rm[2], NoneV))} :
           /\ messages' = e.messages
           /\ seen' = e.seen
           /\ om' = [om EXCEPT ![a] = e.task]
    /\ calls' = calls + 1
    /\ UNCHANGED <<schedState, now, lastCall, toolState, pkg, bots, route>>

\* The caller of a direct call (or nobody, for a task the router abandoned)
\* receives what on_message returned.
OmReturn(s) ==
    /\ om[s].pc = "done"
    /\ om[s].caller \in {"api", "orphan"}
    /\ om' = [om EXCEPT ![s] = Idle]
    /\ UNCHANGED <<schedState, ctxState, now, lastCall, toolState, pkg, bots, route, calls>>

\* route_message: one on_message coroutine per agent, started in order; each
\* runs to its first completion call before the next one starts.
RECURSIVE StartAll(_, _, _, _, _, _)
StartAll(i, msgs, ids, tasks, message, sender) ==
    IF i > Len(AgentOrder) THEN [messages |-> msgs, seen |-> ids, om |-> tasks]
    ELSE LET a == AgentOrder[i]
             e == Entry(msgs, ids,
                        Coroutine("route", a, message, sender, "None", TRUE,
                                  NoneV, NoneV))
         IN StartAll(i + 1, e.messages, e.seen, [tasks EXCEPT ![a] = e.task],
                     message, sender)

RouteCall ==
    /\ ~route.active
    /\ \A a \in AgentNames : om[a].pc = "idle"
    /\ calls < MaxCalls
    /\ \E message \in Texts, sender \in {"user", "a1"} :
        \E e \in {StartAll(1, messages, seen, om, message, sender)} :
           /\ messages' = e.messages
           /\ seen' = e.seen
           /\ om' = e.om
    /\ route' = [NoRoute EXCEPT !.active = TRUE]
    /\ calls' = calls + 1
    /\ UNCHANGED <<schedState, now, lastCall, toolState, pkg, bots>>

\* The (agent name, result) pairs of the results that are not None
RECURSIVE Responses(_, _)
Responses(i, tasks) ==
    IF i > Len(AgentOrder) THEN <<>>
    ELSE LET a == AgentOrder[i]
         IN (IF tasks[a].result.kind = "None" THEN <<>>
             ELSE <<[agent |-> a, text |-> tasks[a].result.text]>>)
            \o Responses(i + 1, tasks)

Failed == {a \in AgentNames : om[a].caller = "route" /\ om[a].failed}
Answered == {a \in AgentNames : om[a].caller = "route" /\ om[a].answered}

\* asyncio.gather returns once every coroutine has returned.
RouteReturn ==
    /\ route.active
    /\ \A a \in AgentNames : om[a].pc = "done" /\ om[a].result.kind # "raise"
    /\ route' = [active |-> FALSE, kind |-> "list",
                 responses |-> Responses(1, om),
                 failed |-> Failed, answered |-> Answered]
    /\ om' = [s \in Slots |-> IF s \in AgentNames THEN Idle ELSE om[s]]
    /\ UNCHANGED <<schedState, ctxState, now, lastCall, toolState, pkg, bots, calls>>

\* asyncio.gather (return_exceptions left False) raises as soon as one
\* coroutine has raised; the others keep running and their results are lost.
RouteRaise ==
    /\ route.active
    /\ \E a \in AgentNames : om[a].pc = "done" /\ om[a].result.kind = "raise"
    /\ route' = [active |-> FALSE, kind |-> "raise", responses |-> <<>>,
                 failed |-> Failed, answered |-> Answered]
    /\ om' = [s \in Slots |->
                IF s \notin AgentNames THEN om[s]
                ELSE IF om[s].pc = "done" THEN Idle
                ELSE [om[s] EXCEPT !.caller = "orphan"]]
    /\ UNCHANGED <<schedState, ctxState, now, lastCall, toolState, pkg, bots, calls>>

\* The agents of the model: a1 may send mail, a2's mail entry is disabled.
AgentInit ==
    /\ Init
    /\ agentTools = [a \in AgentNames |->
                        IF a = "a1" THEN <<ToolConfig("gmail", TRUE, {"send"})>>
                        ELSE <<ToolConfig("gmail", FALSE, {"send"})>>]
    /\ hasStore

\* MCPBridge.connect("gmail", url), by whoever wires the bridge
ConnectGmail ==
    /\ connections' = connect(connections, "gmail")
    /\ UNCHANGED <<schedState, ctxState, now, lastCall, agentTools, registry, hasStore, disk, uuids,
                   agentState>>

AgentNext ==
    \/ \E a \in AgentNames : OmCall(a)
    \/ \E s \in AgentNames : OmJudge(s) \/ OmReact(s) \/ OmReply(s) \/ OmFormat(s)
    \/ \E s \in AgentNames : OmReturn(s)
    \/ RouteCall
    \/ RouteReturn
    \/ RouteRaise
    \/ ConnectGmail

SpecAgent == AgentInit /\ [][AgentNext]_vars

----------------------------------------------------------------------------
(* ScheduleRunner.run and BotManager._run_scheduler *)

\* Job records of a schedules.yaml written by earlier runs: a job of a1 that
\* is due, a job whose agent no longer exists, a job of a2 due tomorrow.
DueJob == ScheduledJob("k1", "a1", "t1", "interval", {1}, NoneV, {7}, isoformat(0))
StrayJob == ScheduledJob("k2", "nobody", "t1", "cron", {}, "30 14", {}, isoformat(0))
LaterJob == ScheduledJob("k3", "a2", "t1", "interval", {2}, NoneV, {}, isoformat(SecondsPerDay))

JobFiles == {<<DueJob>>, <<StrayJob, DueJob>>, <<LaterJob, DueJob>>, <<DueJob, StrayJob>>}

\* The task of a job as the message handed to on_message
TaskText(task) == Text(<<task>>, NoCallW)

\* f"schedule:{job.job_id}:{job.next_run}"
FiringId(job) ==
    "schedule:" \o job.job_id \o ":" \o job.next_run[1] \o ToString(job.next_run[2])

\* {"channel_id": job.channel_id}, by the text of the channel id
ChannelCtx(job) == IF job.channel_id = {} THEN "None" ELSE "7"

\* next_run and now >= next_run
Due(job, t) ==
    /\ _parse_datetime(job.next_run) # {}
    /\ \A nr \in _parse_datetime(job.next_run) : t >= nr

\* The top of the loop body: now = datetime.now(); jobs = load_jobs()
BeginTick ==
    [pc |-> "scan", running |-> TRUE, now |-> now, jobs |-> load_jobs(disk),
     i |-> 1, wake |-> 0, fired |-> <<>>, persisted |-> {}, stopAt |-> "never"]

\* The job of the for loop, and the next-run computed from the tick's now
Job == sched.jobs[sched.i]
NextRun(job) ==
    _compute_next_run(job.schedule_type, job.interval_minutes, job.cron, sched.now)
Recomputed(job) == [job EXCEPT !.next_run = isoformat(NextRun(job).value)]

\* The callback's on_message call in flight has produced a reply.
Replying == sched.pc = "await" /\ om["sched"].result.via = "reply"

\* The record of the callback's invocations, the last one closed.
Closed ==
    IF firings = <<>> THEN firings
    ELSE [firings EXCEPT ![Len(firings)].reply = @ \/ Replying]

\* BotManager.start_all: the runner's task starts, run sets the flag and
\* enters its first tick.
SchedStart ==
    /\ sched.pc = "new"
    /\ sched' = BeginTick
    /\ UNCHANGED <<ctxState, now, lastCall, toolState, agentState, firings,
                   crashes>>

\* The for loop passes over a job that is not due.
SchedSkip ==
    /\ sched.pc = "scan"
    /\ sched.i <= Len(sched.jobs)
    /\ ~Due(Job, sched.now)
    /\ sched' = [sched EXCEPT !.i = @ + 1]
    /\ UNCHANGED <<ctxState, now, lastCall, toolState, agentState, firings,
                   crashes>>

\* A due job of a known agent: the callback calls agent.on_message, which
\* runs to its first completion call.
SchedFire ==
    /\ sched.pc = "scan"
    /\ sched.i <= Len(sched.jobs)
    /\ Due(Job, sched.now)
    /\ Job.agent_name \in AgentNames
    /\ \E e \in {Entry(messages, seen,
                       Coroutine("sched", Job.agent_name, TaskText(Job.task),
                                 "scheduler", "True", TRUE, FiringId(Job),
                                 ChannelCtx(Job)))} :
        /\ messages' = e.messages
        /\ seen' = e.seen
        /\ om' = [om EXCEPT !["sched"] = e.task]
        /\ firings' = Append(firings,
                             [id |-> FiringId(Job), epoch |-> crashes,
                              job_id |-> Job.job_id, agent |-> Job.agent_name,
                              entry |-> Len(e.messages) > Len(messages),
                              reply |-> FALSE])
    /\ sched' = [sched EXCEPT !.pc = "await", !.fired = Append(@, sched.i)]
    /\ UNCHANGED <<now, lastCall, toolState, pkg, bots, route, calls, crashes>>

\* run starts the callback and goes on without awaiting it.
Returned_nowait(t) == TRUE

\* await execute(job) hands control back to run once the callback's
\* coroutine has finished.
Returned(t) == t.pc = "done"

\* The slot of the callback once run has gone on: a finished coroutine is gone.
Release(t) == IF t.pc = "done" THEN Idle ELSE t

\* The callback has returned: job.next_run is recomputed from the tick's now
\* and update_job writes the job back.
SchedPersist ==
    /\ sched.pc = "await"
    /\ Returned(om["sched"])
    /\ om["sched"].result.kind # "raise"
    /\ ~NextRun(Job).raised
    /\ disk' = update_job(disk, Recomputed(Job))
    /\ sched' = [sched EXCEPT !.pc = "scan", !.i = @ + 1,
                              !.persisted = @ \cup {sched.i}]
    /\ om' = [om EXCEPT !["sched"] = Release(@)]
    /\ firings' = Closed
    /\ UNCHANGED <<ctxState, now, lastCall, agentTools, registry, connections, hasStore,
                   uuids, pkg, bots, route, calls, crashes>>

\* A due job whose agent get_agent does not know: the callback returns at
\* once, and the job is recomputed and written back.
SchedFireUnknown ==
    /\ sched.pc = "scan"
    /\ sched.i <= Len(sched.jobs)
    /\ Due(Job, sched.now)
    /\ Job.agent_name \notin AgentNames
    /\ ~NextRun(Job).raised
    /\ firings' = Append(firings,
                         [id |-> FiringId(Job), epoch |-> crashes,
                          job_id |-> Job.job_id, agent |-> Job.agent_name,
                          entry |-> FALSE, reply |-> FALSE])
    /\ disk' = update_job(disk, Recomputed(Job))
    /\ sched' = [sched EXCEPT !.i = @ + 1, !.fired = Append(@, sched.i),
                              !.persisted = @ \cup {sched.i}]
    /\ UNCHANGED <<ctxState, now, lastCall, agentTools, registry, connections, hasStore,
                   uuids, agentState, crashes>>

\* The callback (or the recomputation) raised: nothing in run catches it, the
\* exception ends run and the runner's task.
SchedDie ==
    /\ sched.pc = "await"
    /\ Returned(om["sched"])
    /\ om["sched"].result.kind = "raise" \/ NextRun(Job).raised
    /\ sched' = [sched EXCEPT !.pc = "dead"]
    /\ om' = [om EXCEPT !["sched"] = Release(@)]
    /\ firings' = Closed
    /\ UNCHANGED <<ctxState, now, lastCall, toolState, pkg, bots, route, calls,
                   crashes>>

\* The for loop is over: await asyncio.sleep(30)
SchedSleep ==
    /\ sched.pc = "scan"
    /\ sched.i > Len(sched.jobs)
    /\ sched' = [sched EXCEPT !.pc = "sleep", !.wake = now + SleepSeconds]
    /\ UNCHANGED <<ctxState, now, lastCall, toolState, agentState, firings,
                   crashes>>

\* The sleep is over: while self._running
SchedWake ==
    /\ sched.pc = "sleep"
    /\ now >= sched.wake
    /\ sched' = IF sched.running THEN BeginTick
                ELSE [sched EXCEPT !.pc = "returned"]
    /\ UNCHANGED <<ctxState, now, lastCall, toolState, agentState, firings,
                   crashes>>

\* ScheduleRunner.stop
SchedStop ==
    /\ sched.running
    /\ sched' = [sched EXCEPT !.running = FALSE, !.stopAt = sched.pc]
    /\ UNCHANGED <<ctxState, now, lastCall, toolState, agentState, firings,
                   crashes>>

\* The process stops and is started again: everything in memory is built
\* anew (AgentManager.setup, BotManager.__init__); schedules.yaml stays.
Crash ==
    /\ crashes < MaxCrashes
    /\ crashes' = crashes + 1
    /\ messages' = <<>>
    /\ seen' = {}
    /\ connections' = {}
    /\ om' = [s \in Slots |-> Idle]
    /\ route' = NoRoute
    /\ sched' = NotStarted
    /\ firings' = Closed
    /\ UNCHANGED <<now, lastCall, agentTools, registry, hasStore, disk, uuids, pkg, bots, calls>>

\* The state the bots start in: Init, but for a schedules.yaml that holds jobs.
SchedInit ==
    /\ messages = <<>>
    /\ seen = {}
    /\ now = 0
    /\ lastCall = NoCall
    /\ agentTools = [a \in AgentNames |->
                        IF a = "a1" THEN <<ToolConfig("gmail", TRUE, {"send"})>>
                        ELSE <<ToolConfig("gmail", FALSE, {"send"})>>]
    /\ registry = Registered(agentTools)
    /\ connections = {}
    /\ hasStore = TRUE
    /\ disk \in JobFiles
    /\ uuids = 0
    /\ pkg \in {"hive", "openbuden"}
    /\ bots = NoBots
    /\ om = [s \in Slots |-> Idle]
    /\ route = NoRoute
    /\ calls = 0
    /\ sched = NotStarted
    /\ firings = <<>>
    /\ crashes = 0

SchedNext ==
    \/ SchedStart
    \/ SchedSkip
    \/ SchedFire
    \/ SchedFireUnknown
    \/ OmReply("sched")
    \/ OmFormat("sched")
    \/ SchedPersist
    \/ SchedDie
    \/ SchedSleep
    \/ SchedWake
    \/ SchedStop
    \/ Crash
    \/ Tick
    \/ ConnectGmail

SpecSched == SchedInit /\ [][SchedNext]_vars

----------------------------------------------------------------------------
(* The schedule slash commands  (hive/discord/bot.py) and the store *)

\* HiveBot.schedule_add: [reply, file, uuids]
schedule_add(file, n, current, agent, schedule_type, task, interval_minutes, cron, channel_id) ==
    LET kind == strip(lower(schedule_type))
        r == add_job(file, n, current, agent, task, kind, interval_minutes,
                     cron, channel_id)
    IN IF kind = "interval" /\ ~Truthy(interval_minutes)
       THEN [reply |-> "need_interval", file |-> file, uuids |-> n]
       ELSE IF kind = "cron" /\ cron \in {NoneV, ""}
       THEN [reply |-> "need_cron", file |-> file, uuids |-> n]
       ELSE IF kind \notin {"interval", "cron"}
       THEN [reply |-> "bad_type", file |-> file, uuids |-> n]
       ELSE IF r.raised
       THEN [reply |-> "raised", file |-> file, uuids |-> n]
       ELSE [reply |-> "scheduled", file |-> r.file, uuids |-> n + 1]

\* HiveBot.schedule_list: the jobs shown
schedule_list(file, agent) == list_jobs(file, agent)

\* HiveBot.schedule_remove: [removed, file]
schedule_remove(file, agent, job_id) == remove_job(file, job_id, agent)

\* What a user may type into /hive schedule add:
\* <<schedule_type, task, interval_minutes, cron>>
SlashInputs ==
    { <<"interval", "t1", {2}, NoneV>>,
      <<" Cron ", "t1", {}, "30 14">>,
      <<"interval", "t1", {}, NoneV>>,
      <<"cron", "t1", {}, NoneV>>,
      <<"daily", "t1", {2}, NoneV>>,
      <<"interval", "t1", {-5}, NoneV>>,
      <<"interval", "", {2}, NoneV>>,
      <<"cron", "t1", {2}, "30 14">>,
      <<"interval", "t1", {2}, "">> }

\* interaction.channel_id
SlashChannel == {7}

\* A user runs /hive schedule add in the bot of agent a.
SlashAdd(a) ==
    \E x \in SlashInputs :
    \E r \in {schedule_add(disk, uuids, now, a, x[1], x[2], x[3], x[4], SlashChannel)} :
        /\ r.uuids <= MaxJobs
        /\ disk' = r.file
        /\ uuids' = r.uuids
        /\ lastCall' = [op |-> "schedule_add", agent |-> a, input |-> x,
                        reply |-> r.reply]
        /\ UNCHANGED <<schedState, ctxState, now, agentTools, registry, connections,
                       hasStore, agentState>>

\* A user runs /hive schedule list in the bot of agent a.
SlashList(a) ==
    /\ lastCall' = [op |-> "schedule_list", agent |-> a,
                    jobs |-> schedule_list(disk, a)]
    /\ UNCHANGED <<schedState, ctxState, now, toolState, agentState>>

\* The job ids a user may name
RemoveIds == {"j1", "k3"}

\* A user runs /hive schedule remove in the bot of agent a.
SlashRemove(a) ==
    \E job_id \in RemoveIds :
    \E r \in {schedule_remove(disk, a, job_id)} :
        /\ disk' = r.file
        /\ lastCall' = [op |-> "schedule_remove", agent |-> a,
                        job_id |-> job_id, removed |-> r.removed]
        /\ UNCHANGED <<schedState, ctxState, now, agentTools, registry, connections,
                       hasStore, uuids, agentState>>

\* The params of the schedule tool calls: those of ParamChoices, and a write
\* of an interval job that names no minute count.
StoreParamChoices == ParamChoices \cup {_parse_params(WriteNoMinutes)}

\* The bots are up with a schedules.yaml that is empty or holds a job of a2.
StoreInit ==
    /\ messages = <<>>
    /\ seen = {}
    /\ now = 0
    /\ lastCall = NoCall
    /\ agentTools = [a \in AgentNames |-> <<>>]
    /\ registry = Registered(agentTools)
    /\ connections = {}
    /\ hasStore = TRUE
    /\ disk \in {<<>>, <<LaterJob>>}
    /\ uuids = 0
    /\ pkg = "hive"
    /\ bots = NoBots
    /\ om = [s \in Slots |-> Idle]
    /\ route = NoRoute
    /\ calls = 0
    /\ sched = NotStarted
    /\ firings = <<>>
    /\ crashes = 0

StoreNext ==
    \/ \E a \in AgentNames : SlashAdd(a)
    \/ \E a \in AgentNames : SlashList(a)
    \/ \E a \in AgentNames : SlashRemove(a)
    \/ ToolRunWith({"schedule"}, {"write"}, StoreParamChoices)

SpecStore == StoreInit /\ [][StoreNext]_vars

----------------------------------------------------------------------------
(* C1 *)

\* C1: idempotent ingestion. A call of add_message with a non-null id d that
\* was already seen leaves the message list and the seen-id set unchanged; a
\* call with an id not yet seen grows the history by exactly one entry and
\* records the id. Hence two calls with the same d grow the history by one.
C1_IdempotentIngestion ==
    [][ (lastCall'.op = "add_message" /\ lastCall'.message_id # NoneV)
        => IF lastCall'.message_id \in seen
           THEN messages' = messages /\ seen' = seen
           ELSE /\ Len(messages') = Len(messages) + 1
                /\ seen' = seen \cup {lastCall'.message_id} ]_vars

\* C1 witness: a second call with an id already seen has been made.
C1_Witness ==
    /\ lastCall.op = "add_message"
    /\ lastCall.message_id # NoneV
    /\ lastCall.dup
    /\ Len(messages) >= 1

----------------------------------------------------------------------------
(* C3, C4, C6: authorization and dispatch in ToolExecutor.run *)

IsRun == lastCall.op = "run"

\* The entries of the calling agent's tool list that carry the requested name
Named == {i \in 1..Len(agentTools[lastCall.agent]) :
            agentTools[lastCall.agent][i].name = lastCall.tool_name}

Rejected ==
    /\ ~lastCall.allowed
    /\ ~lastCall.bridge
    /\ lastCall.storeOp = "none"
    /\ lastCall.result = NoResult

\* C3 as stated: a non-schedule call is permitted iff the agent's tool list
\* contains some entry with the requested name that is enabled and whose
\* permission set holds the action; otherwise it is rejected.
C3_AnyEntryAuthorizes ==
    (IsRun /\ lastCall.tool_name # "schedule") =>
        /\ lastCall.allowed <=>
              \E i \in Named :
                  /\ agentTools[lastCall.agent][i].enabled
                  /\ lastCall.action \in agentTools[lastCall.agent][i].permissions
        /\ ~lastCall.allowed => Rejected

\* C3 amended: a non-schedule call is permitted iff the FIRST entry of the
\* agent's tool list with the requested name is enabled and holds the action
\* in its permission set (later entries of that name are not consulted); in
\* every other case the call is rejected.
C3_Authorization ==
    (IsRun /\ lastCall.tool_name # "schedule") =>
        /\ lastCall.allowed <=>
              /\ Named # {}
              /\ \E i \in Named :
                  /\ \A k \in Named : i <= k
                  /\ agentTools[lastCall.agent][i].enabled
                  /\ lastCall.action \in agentTools[lastCall.agent][i].permissions
        /\ ~lastCall.allowed => Rejected

\* C3 witness: a permitted call, made with a tool list that names the tool
\* twice.
C3_Witness ==
    /\ IsRun
    /\ lastCall.tool_name = "gmail"
    /\ lastCall.allowed
    /\ Cardinality(Named) = 2

\* C4: a call naming the schedule pseudo-tool passes the permission check
\* for every agent, tool list and action.
C4_ScheduleAlwaysAllowed ==
    (IsRun /\ lastCall.tool_name = "schedule") => lastCall.allowed

\* C4 witness: a schedule call by an agent whose tool list holds a disabled
\* entry named schedule.
C4_Witness ==
    /\ IsRun
    /\ lastCall.tool_name = "schedule"
    /\ lastCall.allowed
    /\ \E i \in Named : ~agentTools[lastCall.agent][i].enabled

\* C6: an authorized schedule call is handled locally and never reaches the
\* bridge, whatever the executor's configuration; an authorized non-schedule
\* call is forwarded to the bridge, which returns a structured result iff a
\* connection for the tool name exists.
C6_Dispatch ==
    (IsRun /\ lastCall.allowed) =>
        IF lastCall.tool_name = "schedule"
        THEN ~lastCall.bridge
        ELSE /\ lastCall.bridge
             /\ lastCall.storeOp = "none"
             /\ IF lastCall.tool_name \in connections
                THEN lastCall.result.kind = "bridge"
                ELSE lastCall.result = NoResult

----------------------------------------------------------------------------
(* C5, C7, C8, C9: Agent.on_message and AgentManager.route_message *)

\* The slots in which a coroutine of on_message has been started
Started == {s \in Slots : om[s].pc # "idle"}

\* The authorization rule as the specification words it: some enabled entry
\* of that name lists the action (schedule is always authorized).
SpecAuthorized(agent_tools, tool_name, action) ==
    \/ tool_name = "schedule"
    \/ \E i \in 1..Len(agent_tools) :
          /\ agent_tools[i].name = tool_name
          /\ agent_tools[i].enabled
          /\ action \in agent_tools[i].permissions

\* The coroutine in slot s receives, in this step, a completion holding a
\* tool call that the agent is not authorized to make.
UnauthorizedCallStep(s) ==
    /\ om[s].pc = "reply"
    /\ om'[s].tool.ran
    /\ ~SpecAuthorized(agentTools[om[s].agent], om'[s].tool.tool_name,
                       om'[s].tool.action)

\* C5: an unauthorized tool call has no effect. The bridge's execute and the
\* ScheduleStore are not invoked (the schedules file is untouched), and the
\* agent appends to the shared context and returns exactly the completion
\* text, with no tool-result block.
C5_UnauthorizedNoEffect ==
    [][ \A s \in Slots : UnauthorizedCallStep(s) =>
          /\ ~om'[s].tool.bridge
          /\ om'[s].tool.storeOp = "none"
          /\ disk' = disk
          /\ uuids' = uuids
          /\ om'[s].pc = "done"
          /\ om'[s].raw.block = NoBlock
          /\ om'[s].result = ReturnText(om'[s].raw, "reply")
          /\ messages' = Append(messages,
                                Message("assistant", om'[s].raw, om[s].agent, now))
      ]_vars

\* C5 witness: a2, whose gmail entry is disabled, got a completion asking to
\* send mail, while the bridge holds a gmail connection; the reply is returned.
C5_Witness ==
    /\ om["a2"].pc = "done"
    /\ om["a2"].tool.ran
    /\ om["a2"].tool.tool_name = "gmail"
    /\ om["a2"].tool.action = "send"
    /\ "gmail" \in connections
    /\ om["a2"].result.kind = "text"

\* The coroutine in slot s was called with the agent's own name as sender.
SelfCall(s) == om[s].pc # "idle" /\ om[s].sender = om[s].agent

\* C7: self-filter. A call whose sender is the agent's own name, whatever the
\* override and the text, makes no completion call, runs no tool, returns
\* None (no reply, no reaction), and the step that starts it appends no
\* assistant message.
C7_SelfFilter ==
    /\ [](\A s \in Slots : SelfCall(s) =>
             /\ om[s].pc = "done"
             /\ om[s].llm = <<>>
             /\ ~om[s].tool.ran
             /\ om[s].result = ReturnNone)
    /\ [][ \A s \in Slots :
             (om[s].pc = "idle" /\ om'[s].pc # "idle"
                 /\ om'[s].sender = om'[s].agent)
             => /\ Len(messages') >= Len(messages)
                /\ \A i \in (Len(messages) + 1)..Len(messages') :
                      messages'[i].role = "user" ]_vars

\* C7 witness: a call with the agent's own name as sender, an override that
\* asks for a reply and a text that mentions the agent, has returned.
C7_Witness ==
    \E s \in Slots :
        /\ SelfCall(s)
        /\ om[s].override = "True"
        /\ Mentions(om[s].message, om[s].agent)
        /\ om[s].pc = "done"

\* The coroutine in slot s was called with an explicit override for a
\* message of somebody else, and on_message accepted its arguments.
Overridden(s) ==
    /\ om[s].pc # "idle"
    /\ om[s].override # "None"
    /\ om[s].sender # om[s].agent
    /\ om[s].result.kind # "raise"

\* C8 as stated: any override that is present forces "respond": no judgment
\* call is made and the completion request for the reply is built.
C8_AnyOverrideResponds ==
    \A s \in Slots : Overridden(s) =>
        /\ om[s].llm # <<>>
        /\ om[s].llm[1] = "reply"
        /\ \A i \in 1..Len(om[s].llm) : om[s].llm[i] # "judge"

\* C8 amended: an explicit override decides alone, without the mention check
\* and without the judgment call. Override true forces "respond" (the first
\* completion call is the reply's); override false forces "do not respond"
\* (the only completion call is the reaction's, also for a text that
\* mentions the agent, and nothing is appended for the agent).
C8_OverrideDecides ==
    \A s \in Slots : Overridden(s) =>
        /\ \A i \in 1..Len(om[s].llm) : om[s].llm[i] # "judge"
        /\ om[s].override = "True" =>
              /\ om[s].llm # <<>>
              /\ om[s].llm[1] = "reply"
              /\ om[s].prompt # <<>>
        /\ om[s].override = "False" =>
              /\ om[s].llm = <<"react">>
              /\ om[s].prompt = <<>>
              /\ ~om[s].tool.ran
              /\ om[s].result.via # "reply"

\* C8 witness: override false for a text that mentions the agent; the call
\* ended in a reaction.
C8_Witness ==
    \E s \in Slots :
        /\ Overridden(s)
        /\ om[s].override = "False"
        /\ Mentions(om[s].message, om[s].agent)
        /\ om[s].pc = "done"
        /\ om[s].result.via = "reaction"

\* The agents with an entry in the list route_message returned
Responders == {route.responses[i].agent : i \in 1..Len(route.responses)}

\* C9: fan-out independence. When route_message has ended and the reply
\* completion of some agent had failed, route_message returned (no exception
\* reached its caller), the list holds a reply for every other agent whose
\* completion succeeded, and none for an agent whose completion failed.
C9_FanOutIndependence ==
    (route.kind # "none" /\ route.failed # {}) =>
        /\ route.kind = "list"
        /\ \A a \in route.answered : a \in Responders
        /\ \A a \in route.failed : a \notin Responders

----------------------------------------------------------------------------
(* C2, C10: the scheduler *)

\* The k-th invocation of the callback produced an agent reply.
ReplyOf(k) == firings[k].reply \/ (k = Len(firings) /\ Replying)

\* C2: exactly-once firing across a restart. When the callback was invoked
\* for an occurrence (job id and next-run) and the process was stopped and
\* started again before the new next-run was written, a later invocation for
\* the same occurrence adds no entry to the shared history and produces no
\* agent reply.
C2_ExactlyOncePerOccurrence ==
    \A k1, k2 \in DOMAIN firings :
        (k1 < k2 /\ firings[k1].id = firings[k2].id
                 /\ firings[k1].epoch < firings[k2].epoch)
        => ~firings[k2].entry /\ ~ReplyOf(k2)

\* How many times position k of the tick's job list had its callback invoked
Invocations(k) == Cardinality({n \in DOMAIN sched.fired : sched.fired[n] = k})

\* C10: when a tick's pass over the jobs has ended, every job that was due at
\* the tick's now had its callback invoked exactly once and its recomputed
\* next-run written back; every job that was not due was neither fired nor
\* written.
C10_TickContract ==
    sched.pc \in {"sleep", "dead"} =>
        \A k \in 1..Len(sched.jobs) :
            IF Due(sched.jobs[k], sched.now)
            THEN Invocations(k) = 1 /\ k \in sched.persisted
            ELSE Invocations(k) = 0 /\ k \notin sched.persisted

----------------------------------------------------------------------------
(* C11, C12: the runner's callbacks and its stop flag *)

\* A callback started by the runner has not finished yet.
InFlight == om["sched"].pc # "idle"

\* C11: no overlap. The runner starts at most one callback at a time and
\* waits for it: while a callback is in flight the runner is suspended at
\* `await execute(job)` for exactly the job it fired last; it is never at the
\* next job, asleep between ticks, or at the start of a tick.
C11_NoOverlap ==
    InFlight =>
        /\ sched.pc = "await"
        /\ sched.fired # <<>>
        /\ sched.fired[Len(sched.fired)] = sched.i
        /\ om["sched"].mid = FiringId(Job)

\* C11 witness: a second job of the same tick waits behind a callback that
\* is still at its completion call.
C11_Witness ==
    /\ InFlight
    /\ om["sched"].pc = "reply"
    /\ sched.i < Len(sched.jobs)
    /\ Due(sched.jobs[sched.i + 1], sched.now)

\* stop() has been called while the loop was running: during a tick or during
\* the sleep between ticks.
Stopped == sched.stopAt \in {"scan", "await", "sleep"}

\* C12: cooperative stop. stop() only clears the flag; once it is cleared
\* the tick in progress still ends with every job that was due fired once
\* and rescheduled, and no further tick begins: the loop leaves at its next
\* test of the flag.
C12_CooperativeStop ==
    /\ [](Stopped /\ sched.pc \in {"sleep", "returned", "dead"} =>
            \A k \in 1..Len(sched.jobs) :
                Due(sched.jobs[k], sched.now) =>
                    Invocations(k) = 1 /\ k \in sched.persisted)
    /\ [][ (sched.running /\ ~sched'.running /\ sched'.pc # "new") =>
              /\ sched' = [sched EXCEPT !.running = FALSE, !.stopAt = sched.pc]
              /\ om' = om /\ disk' = disk ]_vars
    /\ [][ (Stopped /\ sched.pc = "sleep") => sched'.pc \in {"sleep", "returned", "new"} ]_vars

----------------------------------------------------------------------------
(* C15: which schedule operation a tool call performs *)

\* A schedule tool call handled by the store
IsScheduleRun == IsRun /\ lastCall.tool_name = "schedule" /\ hasStore

\* The value of the params entry "action", lower-cased ("" when absent)
ParamAction == lower(StrOrEmpty(Get(lastCall.params, "action")))

\* C15 as stated: the tool call's action A selects the operation: list
\* lists, delete (with a job_id) removes, write creates or is refused.
C15_CallActionSelects ==
    IsScheduleRun =>
        /\ lastCall.action = "list" => lastCall.storeOp = "list_jobs"
        /\ (lastCall.action = "delete"
              /\ StrOrEmpty(Get(lastCall.params, "job_id")) # "")
           => lastCall.storeOp = "remove_job"
        /\ lastCall.action = "write" => lastCall.storeOp \in {"add_job", "none"}

\* C15 amended: the operation is selected by the entry "action" of the params
\* (compared lower-cased), whatever the tool call's action A is: action=list
\* lists the calling agent's jobs, action=delete removes the job named by
\* job_id (nothing is done without a job_id), and any other or absent value
\* is a write.
C15_ParamActionSelects ==
    IsScheduleRun =>
        /\ ParamAction = "list" <=> lastCall.storeOp = "list_jobs"
        /\ (ParamAction = "delete"
              /\ StrOrEmpty(Get(lastCall.params, "job_id")) # "")
           <=> lastCall.storeOp = "remove_job"
        /\ lastCall.storeOp = "add_job" => ParamAction \notin {"list", "delete"}
        /\ (ParamAction \notin {"list", "delete"}
              /\ StrOrEmpty(Get(lastCall.params, "task")) # ""
              /\ StrOrEmpty(Get(lastCall.params, "type")) \in {"interval", "cron"})
           => lastCall.storeOp = "add_job"

\* C15 witness: a tool call written with action write and the params entry
\* action=LIST has listed the jobs.
C15_Witness ==
    /\ IsScheduleRun
    /\ lastCall.action = "write"
    /\ ParamAction = "list"
    /\ lastCall.storeOp = "list_jobs"

----------------------------------------------------------------------------
(* C13: schedule isolation between agents *)

\* The jobs of the file, as the store reads them, that belong to an owner
OwnedBy(file, owner) ==
    {j \in {load_jobs(file)[i] : i \in 1..Len(file)} : j.agent_name = owner}

\* The owners a job may have: the agents, and an agent no longer configured
Owners == AgentNames \cup {"nobody"}

\* The step is a schedule operation: a slash command, or a schedule tool
\* call handled by the store.
ScheduleOp(c) ==
    \/ c.op \in {"schedule_add", "schedule_list", "schedule_remove"}
    \/ c.op = "run" /\ c.tool_name = "schedule"

\* The step lists jobs, and the list it returned
IsList(c) == c.op = "schedule_list" \/ (c.op = "run" /\ c.storeOp = "list_jobs")
Listed(c) == IF c.op = "schedule_list" THEN c.jobs ELSE c.result.jobs

\* The step asks to delete a job, the id it names, and whether it reported
\* a removal
IsDelete(c) == c.op = "schedule_remove" \/ (c.op = "run" /\ c.storeOp = "remove_job")
DeleteId(c) == IF c.op = "schedule_remove" THEN c.job_id ELSE c.result.job_id
ReportedRemoved(c) ==
    IF c.op = "schedule_remove" THEN c.removed ELSE c.result.status = "ok"

\* C13: isolation. A schedule operation of agent A leaves the jobs of every
\* other owner as they were; list returns exactly A's jobs, in file order;
\* delete removes the named job only if A owns it, and otherwise reports
\* not-found and leaves the persisted collection unchanged.
C13_ScheduleIsolation ==
    [][ ScheduleOp(lastCall') =>
          /\ \A b \in Owners \ {lastCall'.agent} :
                OwnedBy(disk', b) = OwnedBy(disk, b)
          /\ IsList(lastCall') =>
                /\ \A i \in 1..Len(Listed(lastCall')) :
                      Listed(lastCall')[i].agent_name = lastCall'.agent
                /\ {Listed(lastCall')[i] : i \in 1..Len(Listed(lastCall'))}
                      = OwnedBy(disk, lastCall'.agent)
                /\ Len(Listed(lastCall'))
                      = Cardinality({i \in 1..Len(disk) :
                                       disk[i].agent_name = lastCall'.agent})
          /\ IsDelete(lastCall') =>
                IF \E j \in OwnedBy(disk, lastCall'.agent) :
                      j.job_id = DeleteId(lastCall')
                THEN /\ ReportedRemoved(lastCall')
                     /\ \A i \in 1..Len(disk') :
                           disk'[i].job_id # DeleteId(lastCall')
                ELSE /\ ~ReportedRemoved(lastCall')
                     /\ disk' = disk
      ]_vars

\* C13 witness: a1 asked to remove the job k3 of a2; not-found was reported
\* and the job is still in the file.
C13_Witness ==
    /\ lastCall.op = "schedule_remove"
    /\ lastCall.agent = "a1"
    /\ lastCall.job_id = "k3"
    /\ ~lastCall.removed
    /\ \E i \in 1..Len(disk) : disk[i].job_id = "k3" /\ disk[i].agent_name = "a2"

-----------------------------------------------------------------------------
(* The next-run computation over the day  (hive/tools/scheduler.py) *)

\* The instants of the clock, in seconds: 00:00, 14:00, 14:30:00, 14:30:30
\* and 15:00 of the first day, and 14:30 of the second.
Instants == {0, 50400, 52200, 52230, 54000, 138600}

\* The recurrences a job is created with: <<schedule_type, interval_minutes, cron>>
Recurrences ==
    { <<"interval", {1}, NoneV>>, <<"interval", {2}, NoneV>>,
      <<"interval", {30}, NoneV>>, <<"cron", {}, "30 14">>,
      <<"cron", {}, "0 0">>, <<"cron", {}, "30 14 * * *">>,
      <<"interval", {}, NoneV>>, <<"cron", {}, NoneV>>, <<"once", {}, NoneV>> }

\* ScheduleStore.add_job is called at the instant `now`.
ClockAdd ==
    \E x \in Recurrences :
    \E r \in {add_job(disk, uuids, now, "a1", "t1", x[1], x[2], x[3], {})} :
        /\ uuids < MaxJobs
        /\ ~r.raised
        /\ disk' = r.file
        /\ uuids' = uuids + 1
        /\ lastCall' = [op |-> "add_job", current |-> now, job |-> r.job]
        /\ UNCHANGED <<schedState, ctxState, now, agentTools, registry, connections,
                       hasStore, agentState>>

\* ScheduleRunner.run begins a tick: it reads the clock.
ClockTick ==
    /\ sched.now # now
    /\ sched' = [sched EXCEPT !.now = now]
    /\ UNCHANGED <<ctxState, now, lastCall, toolState, agentState, firings,
                   crashes>>

\* ScheduleRunner.run finds a job of the file due at the tick's now and, its
\* callback having returned, recomputes next_run and writes the job back.
ClockReschedule ==
    \E i \in 1..Len(disk) :
    \E job \in {load_jobs(disk)[i]} :
        /\ \E t \in _parse_datetime(job.next_run) : sched.now >= t
        /\ ~NextRun(job).raised
        /\ disk' = update_job(disk, Recomputed(job))
        /\ lastCall' = [op |-> "reschedule", current |-> sched.now,
                        job |-> Recomputed(job)]
        /\ UNCHANGED <<schedState, ctxState, now, agentTools, registry, connections,
                       hasStore, uuids, agentState>>

\* Time passes.
ClockAdvance ==
    /\ \E t \in Instants : t > now /\ now' = t
    /\ UNCHANGED <<schedState, ctxState, lastCall, toolState, agentState>>

ClockInit ==
    /\ messages = <<>>
    /\ seen = {}
    /\ now \in Instants
    /\ lastCall = NoCall
    /\ agentTools = [a \in AgentNames |-> <<>>]
    /\ registry = Registered(agentTools)
    /\ connections = {}
    /\ hasStore = TRUE
    /\ disk = <<>>
    /\ uuids = 0
    /\ pkg = "hive"
    /\ bots = NoBots
    /\ om = [s \in Slots |-> Idle]
    /\ route = NoRoute
    /\ calls = 0
    /\ sched = [NotStarted EXCEPT !.now = now]
    /\ firings = <<>>
    /\ crashes = 0

\* An agent's reply carries a schedule write with a negative minute count.
ClockWrite == ToolRunWith({"schedule"}, {"write"}, {_parse_params(WriteNegative)})

ClockNext == ClockAdd \/ ClockTick \/ ClockReschedule \/ ClockAdvance \/ ClockWrite

SpecClock == ClockInit /\ [][ClockNext]_vars

\* The step is a schedule write: the slash-command add, or a schedule tool
\* call whose params select neither list nor delete.
IsWrite(c) ==
    \/ c.op = "schedule_add"
    \/ /\ c.op = "run" /\ c.tool_name = "schedule"
       /\ lower(StrOrEmpty(Get(c.params, "action"))) \notin {"list", "delete"}

\* The job has a task, a recurrence kind, and the parameter its kind needs:
\* a positive minute count, or a cron text of a minute and an hour in range.
WellFormed(j) ==
    /\ j.task # ""
    /\ j.schedule_type \in {"interval", "cron"}
    /\ j.schedule_type = "interval" =>
          j.interval_minutes # {} /\ \A k \in j.interval_minutes : k > 0
    /\ j.schedule_type = "cron" =>
          /\ j.cron \notin {NoneV, ""}
          /\ Len(split(j.cron)) >= 2
          /\ int(split(j.cron)[1]) \subseteq 0..59 /\ int(split(j.cron)[1]) # {}
          /\ int(split(j.cron)[2]) \subseteq 0..23 /\ int(split(j.cron)[2]) # {}

\* C14: a schedule write, by tool call or by slash command, either leaves
\* the persisted collection unchanged or appends one job that has a
\* non-empty task, kind interval or cron, and the valid parameter of its kind.
C14_WriteValidated ==
    [][ IsWrite(lastCall') =>
          \/ disk' = disk
          \/ /\ Len(disk') = Len(disk) + 1
             /\ WellFormed(disk'[Len(disk')]) ]_vars

\* The job has exactly one of interval_minutes and cron populated, the one
\* of its kind.
OneRecurrence(j) ==
    /\ j.schedule_type \in {"interval", "cron"}
    /\ j.interval_minutes # {} <=> j.schedule_type = "interval"
    /\ j.cron # NoneV <=> j.schedule_type = "cron"

\* C16: every job of the persisted collection, as load_jobs reads it, has
\* exactly one of interval_minutes and cron populated, matching its kind.
C16_RecurrenceInvariant ==
    \A i \in 1..Len(disk) : OneRecurrence(load_jobs(disk)[i])

\* The last store operation computed the next run of an interval job with a
\* positive minute count.
IntervalComputed ==
    /\ lastCall.op \in {"add_job", "reschedule"}
    /\ lastCall.job.schedule_type = "interval"
    /\ \E k \in lastCall.job.interval_minutes : k > 0

\* C17: the next run computed for an interval job of k minutes at the
\* instant T, at creation or at the runner's reschedule with the tick's
\* now, is exactly T + k minutes.
C17_IntervalNextRun ==
    IntervalComputed =>
        \A k \in lastCall.job.interval_minutes :
            lastCall.job.next_run = isoformat(lastCall.current + k * 60)

\* An interval job was created at one instant and rescheduled at a later one.
C17_Witness ==
    /\ IntervalComputed
    /\ lastCall.op = "reschedule"
    /\ lastCall.current > 0
    /\ lastCall.job.interval_minutes = {30}

\* The cron texts of a minute and an hour in range, with the minute and the
\* hour they name.
CronCases ==
    { [cron |-> "30 14", m |-> 30, h |-> 14],
      [cron |-> "0 0", m |-> 0, h |-> 0],
      [cron |-> "30 14 * * *", m |-> 30, h |-> 14] }

\* Today's date at h:m with the seconds zeroed, for the instant T.
Candidate(T, m, h) == T - (T % SecondsPerDay) + h * 3600 + m * 60

\* The last store operation computed the next run of a cron job.
CronComputed ==
    /\ lastCall.op \in {"add_job", "reschedule"}
    /\ lastCall.job.schedule_type = "cron"
    /\ \E c \in CronCases : c.cron = lastCall.job.cron

\* C18: the next run computed for a cron job of minute m and hour h at the
\* instant now is today's h:m:00 if that is strictly later than now and the
\* day after's h:m:00 otherwise, hence now < next run <= now + 24h.
C18_CronNextRun ==
    CronComputed =>
        \A c \in CronCases : c.cron = lastCall.job.cron =>
            LET T == lastCall.current
                cand == Candidate(T, c.m, c.h)
                next == IF cand > T THEN cand ELSE cand + SecondsPerDay
            IN /\ lastCall.job.next_run = isoformat(next)
               /\ T < next /\ next <= T + SecondsPerDay

\* Cron "30 14" computed at exactly 14:30:00 gives 14:30 of the day after.
C18_Witness ==
    /\ CronComputed
    /\ lastCall.job.cron = "30 14"
    /\ lastCall.current = 52200
    /\ lastCall.job.next_run = isoformat(138600)

\* C19: saving the list of jobs a store operation persisted and loading it
\* again reproduces the same jobs, in the same order, every field equal.
C19_RoundTrip == load_jobs(save_jobs(disk)) = disk

-----------------------------------------------------------------------------
(* The store's mutations, with save_jobs in its two steps: open(path, "w"),
   which empties the file, and yaml.safe_dump into the handle. *)

\* No save of this process is between its open and its dump.
NoSaveOpen ==
    IF lastCall.op \in {"add_job", "remove_job", "update_job"}
    THEN lastCall.stage = "closed" \/ lastCall.epoch < crashes
    ELSE TRUE

\* save_jobs opens the file for writing: the file is empty until the dump.
SaveOpen(name, after) ==
    /\ NoSaveOpen
    /\ disk' = <<>>
    /\ lastCall' = [op |-> name, stage |-> "open", epoch |-> crashes,
                    before |-> disk, after |-> after]

\* ScheduleStore.add_job up to the open of save_jobs
SaveAdd ==
    \E a \in AgentNames, x \in Recurrences :
    \E r \in {add_job(disk, uuids, now, a, "t1", x[1], x[2], x[3], {})} :
        /\ uuids < MaxJobs
        /\ ~r.raised
        /\ SaveOpen("add_job", r.file)
        /\ uuids' = uuids + 1
        /\ UNCHANGED <<schedState, ctxState, now, agentTools, registry, connections,
                       hasStore, agentState>>

\* ScheduleStore.remove_job up to the open of save_jobs
SaveRemove ==
    \E a \in AgentNames, i \in 1..Len(disk) :
    \E r \in {remove_job(disk, disk[i].job_id, a)} :
        /\ r.removed
        /\ SaveOpen("remove_job", r.file)
        /\ UNCHANGED <<schedState, ctxState, now, agentTools, registry, connections,
                       hasStore, uuids, agentState>>

\* ScheduleStore.update_job, as the runner calls it for a due job, up to the
\* open of save_jobs
SaveUpdate ==
    \E i \in 1..Len(disk) :
    \E job \in {load_jobs(disk)[i]} :
        /\ \E t \in _parse_datetime(job.next_run) : sched.now >= t
        /\ ~NextRun(job).raised
        /\ SaveOpen("update_job", update_job(disk, Recomputed(job)))
        /\ UNCHANGED <<schedState, ctxState, now, agentTools, registry, connections,
                       hasStore, uuids, agentState>>

\* save_jobs dumps the list into the open file and closes it.
SaveDump ==
    /\ ~NoSaveOpen
    /\ disk' = save_jobs(lastCall.after)
    /\ lastCall' = [lastCall EXCEPT !.stage = "closed"]
    /\ UNCHANGED <<schedState, ctxState, now, agentTools, registry, connections,
                   hasStore, uuids, agentState>>

SaveInit ==
    /\ messages = <<>>
    /\ seen = {}
    /\ now = 0
    /\ lastCall = NoCall
    /\ agentTools = [a \in AgentNames |-> <<>>]
    /\ registry = Registered(agentTools)
    /\ connections = {}
    /\ hasStore = TRUE
    /\ disk \in JobFiles \cup {<<>>, <<LaterJob>>}
    /\ uuids = 0
    /\ pkg = "hive"
    /\ bots = NoBots
    /\ om = [s \in Slots |-> Idle]
    /\ route = NoRoute
    /\ calls = 0
    /\ sched = NotStarted
    /\ firings = <<>>
    /\ crashes = 0

SaveNext == SaveAdd \/ SaveRemove \/ SaveUpdate \/ SaveDump \/ Crash

SpecSave == SaveInit /\ [][SaveNext]_vars

\* The process was stopped during the last mutation of the store.
StoppedDuringMutation ==
    /\ lastCall.op \in {"add_job", "remove_job", "update_job"}
    /\ lastCall.stage = "open"
    /\ lastCall.epoch < crashes

\* C20: when the process is stopped during add_job, remove_job or
\* update_job, the persisted collection is the one before the mutation or
\* the one after it.
C20_AtomicMutation ==
    StoppedDuringMutation => disk \in {lastCall.before, lastCall.after}

-----------------------------------------------------------------------------
(* The store's operations on a schedules.yaml that may be damaged between
   them  (hive/tools/scheduler.py) *)

\* The file holds a list with records in it.
Readable(file) == IsListDoc(file) /\ file # <<>>

\* An operation of this process has read a list of records from the store.
HadRead == IF lastCall.op = "none" THEN FALSE ELSE lastCall.read

\* The jobs the last load_jobs returned
Loaded == IF lastCall.op = "none" THEN <<>> ELSE lastCall.loaded

StoreCall(op, failed) ==
    [op |-> op, read |-> HadRead \/ Readable(disk),
     loaded |-> load_jobs(disk), failed |-> failed]

\* ScheduleStore.load_jobs, as list_jobs and the runner's tick call it
DurLoad ==
    /\ lastCall' = StoreCall("load_jobs", FALSE)
    /\ UNCHANGED <<schedState, ctxState, now, toolState, agentState>>

\* ScheduleStore.add_job
DurAdd ==
    \E a \in AgentNames :
    \E r \in {add_job(disk, uuids, now, a, "t1", "interval", {2}, NoneV, {})} :
        /\ uuids < MaxJobs
        /\ disk' = r.file
        /\ uuids' = uuids + 1
        /\ lastCall' = StoreCall("add_job", r.raised)
        /\ UNCHANGED <<schedState, ctxState, now, agentTools, registry, connections,
                       hasStore, agentState>>

\* ScheduleStore.remove_job for a job seen in the last load
DurRemove ==
    \E i \in 1..Len(Loaded) :
    \E r \in {remove_job(disk, Loaded[i].job_id, Loaded[i].agent_name)} :
        /\ disk' = r.file
        /\ lastCall' = StoreCall("remove_job", ~r.removed)
        /\ UNCHANGED <<schedState, ctxState, now, agentTools, registry, connections,
                       hasStore, uuids, agentState>>

\* ScheduleStore.update_job, as the runner calls it after the callback for a
\* job of the list it loaded at the top of the tick
DurUpdate ==
    \E i \in 1..Len(Loaded) :
        /\ ~NextRun(Loaded[i]).raised
        /\ disk' = update_job(disk, Recomputed(Loaded[i]))
        /\ lastCall' = StoreCall("update_job", FALSE)
        /\ UNCHANGED <<schedState, ctxState, now, agentTools, registry, connections,
                       hasStore, uuids, agentState>>

\* The file is rewritten from outside as a document that is not a list.
StoreDamaged ==
    /\ Readable(disk)
    /\ disk' = AsMapping(disk)
    /\ UNCHANGED <<schedState, ctxState, now, lastCall, agentTools, registry,
                   connections, hasStore, uuids, agentState>>

DurInit ==
    /\ messages = <<>>
    /\ seen = {}
    /\ now = 0
    /\ lastCall = NoCall
    /\ agentTools = [a \in AgentNames |-> <<>>]
    /\ registry = Registered(agentTools)
    /\ connections = {}
    /\ hasStore = TRUE
    /\ disk \in JobFiles \cup {<<>>, <<LaterJob>>}
    /\ uuids = 0
    /\ pkg = "hive"
    /\ bots = NoBots
    /\ om = [s \in Slots |-> Idle]
    /\ route = NoRoute
    /\ calls = 0
    /\ sched = NotStarted
    /\ firings = <<>>
    /\ crashes = 0

DurNext == DurLoad \/ DurAdd \/ DurRemove \/ DurUpdate \/ StoreDamaged

SpecDurable == DurInit /\ [][DurNext]_vars

\* C21: after a successful read, an add_job, remove_job or update_job that
\* meets a store that is not a list of records fails and leaves the file as
\* it is.
C21_FailsWithoutOverwrite ==
    [][ ( /\ lastCall'.op \in {"add_job", "remove_job", "update_job"}
          /\ HadRead
          /\ ~IsListDoc(disk) )
        => (lastCall'.failed /\ disk' = disk) ]_vars

\* C27: append-only history. Every step leaves the history it found as a
\* prefix of the history afterwards: no stored message is removed, moved or
\* changed, and a new one comes last.
C27_AppendOnly ==
    [][ /\ Len(messages') >= Len(messages)
        /\ SubSeq(messages', 1, Len(messages)) = messages ]_vars

\* Two authors have appended, one call after the other.
C27_Witness ==
    /\ Len(messages) = 2
    /\ messages[1].name # messages[2].name
    /\ lastCall.op = "add_message"

-----------------------------------------------------------------------------
(* The registrations of a ToolRegistry  (hive/tools/registry.py,
   hive/agent/manager.py) *)

\* The tool descriptors a caller may hand to register
ToolEntries == GmailConfigs \cup ScheduleConfigs

\* AgentManager.setup reaches a tool entry of an agent's configuration.
SetupRegister ==
    \E a \in AgentNames :
    \E i \in 1..Len(agentTools[a]) :
    \E tool \in {agentTools[a][i]} :
        /\ registry' = setup_register(registry, tool)
        /\ lastCall' = [op |-> "setup", tool |-> tool]
        /\ UNCHANGED <<schedState, ctxState, now, agentTools, connections,
                       hasStore, disk, uuids, agentState>>

\* A caller invokes ToolRegistry.register.
DirectRegister ==
    \E tool \in ToolEntries :
        /\ registry' = register(registry, tool)
        /\ lastCall' = [op |-> "register", tool |-> tool]
        /\ UNCHANGED <<schedState, ctxState, now, agentTools, connections,
                       hasStore, disk, uuids, agentState>>

\* A ToolRegistry as constructed, before any registration
RegistryInit ==
    /\ messages = <<>>
    /\ seen = {}
    /\ now = 0
    /\ lastCall = NoCall
    /\ agentTools \in [AgentNames -> ToolLists]
    /\ \A a \in AgentNames \ {"a1"} : agentTools[a] = <<>>
    /\ registry = NoTools
    /\ connections = {}
    /\ hasStore = TRUE
    /\ disk = <<>>
    /\ uuids = 0
    /\ pkg = "hive"
    /\ bots = NoBots
    /\ om = [s \in Slots |-> Idle]
    /\ route = NoRoute
    /\ calls = 0
    /\ sched = NotStarted
    /\ firings = <<>>
    /\ crashes = 0

RegistryNext == SetupRegister \/ DirectRegister

SpecRegistry == RegistryInit /\ [][RegistryNext]_vars

\* The step keeps the descriptor of a name already registered and stores
\* the descriptor of a new name, leaving every other name as it was.
FirstWins(tool) ==
    /\ DOMAIN registry' = DOMAIN registry \cup {tool.name}
    /\ \A n \in DOMAIN registry : registry'[n] = registry[n]
    /\ tool.name \notin DOMAIN registry => registry'[tool.name] = tool

\* C30 as stated: every registration, by setup or by register, keeps the
\* first descriptor of its name.
C30_FirstRegistrationWins ==
    [][ lastCall'.op \in {"setup", "register"} => FirstWins(lastCall'.tool) ]_vars

\* C30: a registration made by AgentManager.setup keeps the first descriptor
\* of its name, enabled flag and permissions included; ToolRegistry.register
\* called directly stores the descriptor it is given, replacing an earlier one
\* of that name.
C30_SetupFirstWins ==
    [][ /\ lastCall'.op = "setup" => FirstWins(lastCall'.tool)
        /\ lastCall'.op = "register" =>
              /\ DOMAIN registry' = DOMAIN registry \cup {lastCall'.tool.name}
              /\ registry'[lastCall'.tool.name] = lastCall'.tool
              /\ \A n \in DOMAIN registry \ {lastCall'.tool.name} :
                    registry'[n] = registry[n] ]_vars

\* setup has met a second entry named gmail that differs from the one
\* registered, and the registry still holds the first.
C30_Witness ==
    /\ lastCall.op = "setup"
    /\ lastCall.tool.name = "gmail"
    /\ "gmail" \in DOMAIN registry
    /\ registry["gmail"] # lastCall.tool

\* The coroutine of slot s handles, without an override, a message its agent
\* did not author.
Undecided(s) ==
    /\ om[s].pc # "idle"
    /\ om[s].override = "None"
    /\ om[s].sender # om[s].agent

\* The text holds "@" followed by the agent's name.
DirectMention(s) ==
    \E i \in 1..Len(om[s].message.words) :
        om[s].message.words[i] = "@" \o om[s].agent

\* The judgment call returned a text with YES in it, in any case.
SaidYes(r) ==
    r.ok /\ \E i \in 1..Len(r.text.words) : r.text.words[i] \in {"yes", "Yes", "YES"}

\* C25: without an override, for a message the agent did not author, a
\* direct mention makes the agent respond without a judgment call; without
\* a mention the judgment call is made and the agent responds iff its
\* answer contains YES; a failed or empty answer means no response.
C25_RespondDecision ==
    \A s \in AgentNames :
        Undecided(s) =>
            IF DirectMention(s)
            THEN /\ om[s].llm[1] = "reply"
                 /\ \A i \in 1..Len(om[s].llm) : om[s].llm[i] # "judge"
            ELSE /\ om[s].llm[1] = "judge"
                 /\ om[s].pc # "judge" =>
                       /\ om[s].llm[2] \in {"reply", "react"}
                       /\ om[s].llm[2] = "reply" <=> SaidYes(om[s].got[1])

\* An agent that was not mentioned was told yes and went on to respond,
\* while the judgment of another could not be obtained and it did not.
C25_Witness ==
    \E s, u \in AgentNames :
        /\ Undecided(s) /\ ~DirectMention(s)
        /\ om[s].llm = <<"judge", "reply">> /\ SaidYes(om[s].got[1])
        /\ Undecided(u) /\ ~DirectMention(u)
        /\ Len(om[u].llm) >= 2 /\ om[u].llm[2] = "react" /\ ~om[u].got[1].ok

\* The step is the return of the reply completion of slot s with a failure
\* (HiveLLMClient.chat returned None).
ReplyFailedStep(s) ==
    /\ om[s].pc = "reply"
    /\ om'[s].pc # "reply"
    /\ om'[s].failed

\* C24: when the agent has decided to respond and the completion call fails
\* or returns no text, on_message returns None without raising, runs no
\* tool, and appends nothing to SharedContext.
C24_FailureIsSilence ==
    [][ \A s \in AgentNames :
          ReplyFailedStep(s) =>
              /\ om'[s].pc = "done"
              /\ om'[s].result = ReturnNone
              /\ ~om'[s].tool.ran
              /\ messages' = messages
              /\ disk' = disk ]_vars

\* An agent that judged it should respond got no completion and returned
\* None, with the inbound message in the history.
C24_Witness ==
    \E s \in AgentNames :
        /\ om[s].pc = "done" /\ om[s].failed
        /\ om[s].llm = <<"judge", "reply">>
        /\ om[s].result = ReturnNone
        /\ messages # <<>>

\* The pairs of the returned collection that name agent a
PairsOf(responses, a) == {i \in 1..Len(responses) : responses[i].agent = a}

\* The returned collection holds one pair for each agent whose on_message
\* returned a result, carrying that result, and none for the others.
ExactPairs(responses, tasks) ==
    \A a \in AgentNames :
        IF tasks[a].result.kind = "None"
        THEN PairsOf(responses, a) = {}
        ELSE /\ Cardinality(PairsOf(responses, a)) = 1
             /\ \A i \in PairsOf(responses, a) :
                   responses[i].text = tasks[a].result.text

\* C26: route_message returns only when the on_message of every agent has
\* finished, and it returns the collection of (agent name, result) pairs of
\* the agents whose result is not null.
C26_RouteJoin ==
    [][ (route.active /\ ~route'.active) =>
            /\ \A a \in AgentNames : om[a].pc = "done"
            /\ route'.kind = "list"
            /\ ExactPairs(route'.responses, om) ]_vars

----------------------------------------------------------------------------
(* The chat gateway: HiveBot.on_message of each agent's bot *)

MaxDeliveries == 2

\* How a gateway message is addressed: message.mention_everyone, and the
\* agents whose bot user is in message.mentions.
Addressings ==
    { [everyone |-> FALSE, mentions |-> {}],
      [everyone |-> FALSE, mentions |-> {"a1"}],
      [everyone |-> TRUE, mentions |-> {}] }

\* message.content of the messages users post
GatewayTexts == {Text(<<"hi">>, NoCallW)}

\* context={"channel_id": message.channel.id}
GatewayCtx == "7"

\* The call HiveBot.on_message makes on its agent.
GatewayCall(a, content, mid) ==
    Coroutine("bot", a, content, "user", "True", FALSE, mid, GatewayCtx)

\* HiveBot.on_message up to its first suspension: the message of a user in a
\* guild is recorded under its id; a message that mentions only others is
\* dropped; a broadcast or a mention of the bot goes to Agent.on_message;
\* anything else waits for Agent.should_respond.
BotReceive(a) ==
    /\ om[a].pc = "idle"
    /\ calls < MaxDeliveries
    /\ \E content \in GatewayTexts, mid \in MsgIds, to \in Addressings :
        \E c \in {add_message(messages, seen, "user", content, "user", mid, now)} :
           /\ Len(c.messages) <= MaxMsgs
           /\ IF to.mentions # {} /\ a \notin to.mentions
              THEN /\ messages' = c.messages
                   /\ seen' = c.seen
                   /\ om' = om
              ELSE IF to.everyone \/ a \in to.mentions
              THEN \E e \in {Entry(c.messages, c.seen, GatewayCall(a, content, mid))} :
                      /\ messages' = e.messages
                      /\ seen' = e.seen
                      /\ om' = [om EXCEPT ![a] = e.task]
              ELSE /\ messages' = c.messages
                   /\ seen' = c.seen
                   /\ om' = [om EXCEPT ![a] =
                               [GatewayCall(a, content, mid)
                                  EXCEPT !.pc = "gate", !.llm = <<"judge">>]]
           /\ lastCall' = [op |-> "gateway", agent |-> a, content |-> content,
                           message_id |-> mid, dup |-> (mid \in seen)]
    /\ calls' = calls + 1
    /\ UNCHANGED <<schedState, now, toolState, pkg, bots, route>>

\* Agent.should_respond returns to HiveBot.on_message: the handler returns
\* on a no, and calls Agent.on_message on a yes.
BotJudged(a) ==
    /\ om[a].pc = "gate"
    /\ \E r \in ChatResults :
        \E t \in {[om[a] EXCEPT !.got = Append(@, r)]} :
           IF r.ok /\ NonEmpty(r.text) /\ ContainsYES(r.text)
           THEN \E e \in {Entry(messages, seen, [t EXCEPT !.pc = "entry"])} :
                   /\ messages' = e.messages
                   /\ seen' = e.seen
                   /\ om' = [om EXCEPT ![a] = e.task]
           ELSE /\ om' = [om EXCEPT ![a] = Finish(t, ReturnNone)]
                /\ UNCHANGED <<messages, seen>>
    /\ UNCHANGED <<schedState, now, lastCall, toolState, pkg, bots, route, calls>>

\* HiveBot.on_message ends: a reaction, a message or nothing goes to the
\* channel, and an exception of Agent.on_message leaves the handler.
BotDeliver(a) ==
    /\ om[a].pc = "done"
    /\ om[a].caller = "bot"
    /\ om' = [om EXCEPT ![a] = Idle]
    /\ lastCall' = [op |-> "deliver", agent |-> a, kind |-> om[a].result.kind,
                    via |-> om[a].result.via]
    /\ UNCHANGED <<schedState, ctxState, now, toolState, pkg, bots, route, calls>>

BotNext ==
    \/ \E a \in AgentNames : BotReceive(a)
    \/ \E a \in AgentNames : BotJudged(a)
    \/ \E a \in AgentNames : OmReply(a)
    \/ \E a \in AgentNames : BotDeliver(a)

SpecBot == AgentInit /\ [][BotNext]_vars

\* The coroutine in slot s has ended with the agent not responding to a
\* message of somebody else: no reply was asked for, and nothing was raised.
NotResponding(s) ==
    /\ om[s].pc = "done"
    /\ om[s].sender # om[s].agent
    /\ om[s].result.kind # "raise"
    /\ \A i \in 1..Len(om[s].llm) : om[s].llm[i] # "reply"

\* What the reaction decision gives back for the completion r
ReactionSignal(r) ==
    IF ~r.ok \/ r.text.words = <<>> \/ upper(r.text.words[1]) = "NONE"
    THEN ReturnNone
    ELSE ReturnText(Text(<<"[REACTION:", r.text.words[1], "]">>, NoCallW),
                    "reaction")

\* C23: an agent that does not respond to a message of somebody else has made
\* the reaction-decision call, and has returned what that call decided: no
\* action for a failed or empty completion or one beginning with NONE, and
\* otherwise the first token as a reaction signal.
C23_FallsThrough ==
    \A s \in AgentNames :
        NotResponding(s) =>
            /\ om[s].llm # <<>>
            /\ om[s].llm[Len(om[s].llm)] = "react"
            /\ om[s].got # <<>>
            /\ om[s].result = ReactionSignal(om[s].got[Len(om[s].got)])

----------------------------------------------------------------------------
(* Reactions of users to a bot's messages: HiveBot.on_reaction_add *)

MaxReactions == 2

\* The messages a bot has posted (reaction.message.id)
BotMessages == {"b1", "b2"}

\* A line of a completion, split at its first colon
Line(label, value) == [label |-> label, value |-> value]

\* What the completion service may answer to the reaction prompt
ReactionCompletions ==
    { <<>>,
      <<Line("REPLY", " NONE"), Line("REACT", " NONE")>>,
      <<Line("REPLY", " thanks"), Line("REACT", " none")>>,
      <<Line("reply", " NONE"), Line("REACT", " ok")>>,
      <<Line("REPLY", " thanks"), Line("REACT", " ok")>>,
      <<Line("REPLY", "")>> }

\* The last value given under a label, when it is neither empty nor NONE
RECURSIVE LineValue(_, _)
LineValue(lines, label) ==
    IF lines = <<>> THEN NoneV
    ELSE LET line == lines[Len(lines)]
             value == strip(line.value)
         IN IF upperLabel(line.label) = label /\ upper(value) # "NONE" /\ value # ""
            THEN value
            ELSE LineValue(SubSeq(lines, 1, Len(lines) - 1), label)

\* Agent.handle_reaction after its completion call: (reply_text, react_emoji)
handle_reaction(ok, lines) ==
    IF ~ok \/ lines = <<>> THEN [reply_text |-> NoneV, react_emoji |-> NoneV]
    ELSE [reply_text |-> LineValue(lines, "REPLY"),
          react_emoji |-> LineValue(lines, "REACT")]

\* on_reaction_add past its guards: the handler awaits handle_reaction.
Handle(bot, message_id) == [bot EXCEPT !.handlers = Append(@, message_id)]

\* A user (or a bot) reacts to a message of agent author; the bot of agent a
\* gets the event. The handler returns at once for a bot's reaction, for a
\* message of somebody else, and for a message already reacted to.
ReactionAdd(a) ==
    /\ bots[a].events < MaxReactions
    /\ \E message_id \in BotMessages, author \in AgentNames, user_bot \in BOOLEAN :
        LET bot == [bots[a] EXCEPT !.events = @ + 1]
            passes == ~user_bot /\ author = a /\ message_id \notin bot.reacted
        IN /\ bots' = [bots EXCEPT ![a] =
                         IF passes THEN Handle(bot, message_id) ELSE bot]
           /\ lastCall' = [op |-> "on_reaction_add", agent |-> a,
                           message_id |-> message_id, author |-> author,
                           user_bot |-> user_bot, handled |-> passes]
    /\ UNCHANGED <<schedState, ctxState, now, toolState, pkg, om, route, calls>>

\* The completion call of a handler returns: the reaction back and the reply
\* are sent, and the message is marked when either was.
ReactionHandled(a) ==
    /\ \E i \in 1..Len(bots[a].handlers), ok \in BOOLEAN,
          lines \in ReactionCompletions :
        LET message_id == bots[a].handlers[i]
            r == handle_reaction(ok, lines)
            responded == r.react_emoji # NoneV \/ r.reply_text # NoneV
        IN bots' = [bots EXCEPT ![a] =
                      [@ EXCEPT
                         !.handlers = SubSeq(@, 1, i - 1)
                                        \o SubSeq(@, i + 1, Len(@)),
                         !.out = IF responded
                                 THEN Append(@, [message_id |-> message_id,
                                                 reply |-> r.reply_text,
                                                 react |-> r.react_emoji])
                                 ELSE @,
                         !.reacted = IF responded THEN @ \cup {message_id}
                                     ELSE @]]
    /\ UNCHANGED <<schedState, ctxState, now, lastCall, toolState, pkg, om, route, calls>>

ReactNext ==
    \/ \E a \in AgentNames : ReactionAdd(a)
    \/ \E a \in AgentNames : ReactionHandled(a)

ReactInit == AgentInit /\ pkg = "hive"

SpecReact == ReactInit /\ [][ReactNext]_vars

\* The reaction-triggered responses bot a has produced for a message
ResponsesTo(a, message_id) ==
    {i \in 1..Len(bots[a].out) : bots[a].out[i].message_id = message_id}

\* C22: for every message of an agent, at most one reaction-triggered
\* response (a reply and/or a reaction back) is ever produced, whatever the
\* number and the interleaving of the users' reactions.
C22_ReactionIdempotent ==
    \A a \in AgentNames, message_id \in BotMessages :
        Cardinality(ResponsesTo(a, message_id)) <= 1

\* The history entries the gateway appended: HiveBot.on_message is the one
\* writer of role "user" here (it calls Agent.on_message with
\* record_incoming=False), and it always passes the message id.
WithId(msgs) == {i \in 1..Len(msgs) : msgs[i].role = "user"}

\* C28: with gateway handlers and agents interleaved at every suspension
\* point, each message id is ingested at most once: the history entries
\* appended with an id are as many as the seen ids.
C28_DedupUnderConcurrency ==
    Cardinality(WithId(messages)) = Cardinality(seen)

\* A message id is delivered again while the agent of another bot is still
\* waiting for a completion, and is not appended again.
C28_Witness ==
    /\ lastCall.op = "gateway"
    /\ lastCall.dup
    /\ \E a \in AgentNames : a # lastCall.agent /\ om[a].pc \in {"gate", "reply"}
    /\ Cardinality(WithId(messages)) = 1

----------------------------------------------------------------------------
(* Agent._parse_params applied to params fragments *)

MaxItems == 3

\* The entries the fragments are written with: the entries of the two
\* fragments of the documentation, a second " to" entry, and "  =x".
ParamItems ==
    { Item("to", "a@b.com"), Item(" subject", "Hi"), Bare(" foo"),
      Item(" to", "Hi "), Item(" ", "x") }

Fragments == UNION { [1..n -> ParamItems] : n \in 0..MaxItems }

ParamsInit ==
    /\ messages = <<>>
    /\ seen = {}
    /\ now = 0
    /\ lastCall \in {[op |-> "fragment", items |-> f] : f \in Fragments}
    /\ agentTools = [a \in AgentNames |-> <<>>]
    /\ registry = Registered(agentTools)
    /\ connections = {}
    /\ hasStore = TRUE
    /\ disk = <<>>
    /\ uuids = 0
    /\ pkg = "hive"
    /\ bots = NoBots
    /\ om = [s \in Slots |-> Idle]
    /\ route = NoRoute
    /\ calls = 0
    /\ sched = NotStarted
    /\ firings = <<>>
    /\ crashes = 0

\* _parse_tool_call hands the fragment to _parse_params.
ParseParams ==
    /\ lastCall.op = "fragment"
    /\ lastCall' = [op |-> "_parse_params", items |-> lastCall.items,
                    result |-> _parse_params(lastCall.items)]
    /\ UNCHANGED <<schedState, ctxState, now, toolState, agentState>>

SpecParams == ParamsInit /\ [][ParseParams]_vars

\* The value of key k in the mapping the entries at positions kept give:
\* the trimmed value of the last kept entry whose trimmed key is k.
LastValue(items, kept, k) ==
    LET at == {i \in kept : strip(items[i].key) = k}
        last == CHOOSE i \in at : \A j \in at : j <= i
    IN strip(items[last].value)

\* The mapping the entries at positions kept give
MappingOf(items, kept, result) ==
    /\ DOMAIN result = {strip(items[i].key) : i \in kept}
    /\ \A k \in DOMAIN result : result[k] = LastValue(items, kept, k)

HasEq(items) == {i \in 1..Len(items) : items[i].eq}
HasKey(items) == {i \in HasEq(items) : strip(items[i].key) # ""}

\* 'to=a@b.com, subject=Hi' and 'to=a@b.com, foo, subject=Hi'
Example == <<Item("to", "a@b.com"), Item(" subject", "Hi")>>
ExampleFoo == <<Item("to", "a@b.com"), Bare(" foo"), Item(" subject", "Hi")>>
ExampleMapping == [k \in {"to", "subject"} |-> IF k = "to" THEN "a@b.com" ELSE "Hi"]

\* C29 as stated: the result is the mapping of the entries that have an "=",
\* keys and values trimmed, the last occurrence of a key winning; entries
\* without "=" are the only ones discarded.
C29_ParamsOfEveryEntry ==
    lastCall.op = "_parse_params" =>
        MappingOf(lastCall.items, HasEq(lastCall.items), lastCall.result)

\* C29, amended: the result is the mapping of the entries that have an "=" and
\* a key that is not empty once trimmed, keys and values trimmed, the last
\* occurrence of a key winning; the two example fragments give
\* {to: a@b.com, subject: Hi}.
C29_ParamsParsed ==
    lastCall.op = "_parse_params" =>
        /\ MappingOf(lastCall.items, HasKey(lastCall.items), lastCall.result)
        /\ lastCall.items \in {Example, ExampleFoo} =>
               lastCall.result = ExampleMapping

\* A fragment with an entry without "=" between two entries of the same key
C29_Witness ==
    /\ lastCall.op = "_parse_params"
    /\ lastCall.items = <<Item("to", "a@b.com"), Bare(" foo"), Item(" to", "Hi ")>>
    /\ lastCall.result = [k \in {"to"} |-> "Hi"]

----------------------------------------------------------------------------
(* The tail of the history *)

Min(a, b) == IF a <= b THEN a ELSE b

\* The last k messages of a history, in insertion order
LastOf(msgs, k) == SubSeq(msgs, Len(msgs) - k + 1, Len(msgs))

\* C31: get_last_n(n) returns exactly the last min(n, L) messages of a history
\* of length L, in insertion order (the empty sequence for n = 0).
C31_Tail ==
    lastCall.op = "get_last_n" =>
        lastCall.result = LastOf(messages, Min(lastCall.n, Len(messages)))

----------------------------------------------------------------------------
(* One inbound event, several agents *)

\* The user messages of a history
UserEntries(msgs) == {i \in 1..Len(msgs) : msgs[i].role = "user"}

\* C32: an inbound event handed to all agents by route_message is recorded in
\* the shared context exactly once as a user message.
C32_RecordedOnce ==
    [][ (~route.active /\ route'.active) =>
            Cardinality(UserEntries(messages'))
                = Cardinality(UserEntries(messages)) + 1 ]_vars

----------------------------------------------------------------------------
(* Firing ids *)

\* Invocation k of the callback is the first one with its firing id since the
\* process started.
FirstOfOccurrence(k) ==
    \A j \in 1..(k - 1) :
        firings[j].epoch = firings[k].epoch => firings[j].id # firings[k].id

\* C33: the callback hands the agent a firing id built from the job id and
\* the next-run the job was found due with; later firings of the same job
\* carry another id; and the task of each distinct occurrence is recorded in
\* the shared context.
C33_FiringIds ==
    /\ InFlight => om["sched"].mid = FiringId(sched.jobs[sched.i])
    /\ \A k \in DOMAIN firings :
          /\ \A j \in 1..(k - 1) :
                (firings[j].job_id = firings[k].job_id
                    /\ firings[j].epoch = firings[k].epoch)
                => firings[j].id # firings[k].id
          /\ (firings[k].agent \in AgentNames /\ FirstOfOccurrence(k))
                => firings[k].entry

----------------------------------------------------------------------------
(* The fallback of the next-run computation *)

\* The last store operation computed the next run of a job that has neither
\* a minute count nor a cron expression.
NoRecurrenceComputed ==
    /\ lastCall.op \in {"add_job", "reschedule"}
    /\ lastCall.job.interval_minutes = {}
    /\ lastCall.job.cron = NoneV

\* C34: the next run computed at the instant T for a job missing both its
\* minute count and its cron expression is exactly T + 5 minutes, whatever
\* the job's kind.
C34_DefensiveDefault ==
    NoRecurrenceComputed =>
        lastCall.job.next_run = isoformat(lastCall.current + 5 * 60)

\* A job of each kind, without recurrence parameters, is rescheduled by the
\* runner at a later instant than the one it was created at.
C34_Witness ==
    /\ NoRecurrenceComputed
    /\ lastCall.op = "reschedule"
    /\ lastCall.job.schedule_type = "cron"
    /\ lastCall.current = 52200
    /\ lastCall.job.next_run = isoformat(52500)

----------------------------------------------------------------------------
(* The next run after a firing *)

\* C35: the next-run the runner writes back for a job it fired is strictly
\* later than the now of the tick, for every job the store can hold.
C35_NextRunAdvances ==
    lastCall.op = "reschedule" =>
        \A t \in _parse_datetime(lastCall.job.next_run) : t > lastCall.current

----------------------------------------------------------------------------
(* The runner with users changing the store while it runs *)

\* A second due job, of agent a2
DueJobA2 == ScheduledJob("k4", "a2", "t1", "interval", {1}, NoneV, {}, isoformat(0))

\* The ids of the jobs of a file
IdsOf(file) == {load_jobs(file)[i].job_id : i \in 1..Len(load_jobs(file))}

\* A user runs /hive schedule remove for a job of the file in the bot of
\* agent a while the runner is suspended in a callback.
LiveRemove(a) ==
    /\ sched.pc = "await"
    /\ \E job_id \in IdsOf(disk) :
        \E r \in {schedule_remove(disk, a, job_id)} :
           /\ disk' = r.file
           /\ lastCall' = [op |-> "schedule_remove", agent |-> a,
                           job_id |-> job_id, removed |-> r.removed]
    /\ UNCHANGED <<schedState, ctxState, now, agentTools, registry, connections,
                   hasStore, uuids, agentState>>

\* A user runs /hive schedule add in the bot of agent a, likewise.
LiveAdd(a) ==
    /\ sched.pc = "await"
    /\ \E r \in {schedule_add(disk, uuids, now, a, "interval", "t1", {2}, NoneV,
                              SlashChannel)} :
        /\ r.uuids <= MaxJobs
        /\ r.reply = "scheduled"
        /\ disk' = r.file
        /\ uuids' = r.uuids
        /\ lastCall' = [op |-> "schedule_add", agent |-> a, reply |-> r.reply]
    /\ UNCHANGED <<schedState, ctxState, now, agentTools, registry, connections,
                   hasStore, agentState>>

LiveInit ==
    /\ messages = <<>>
    /\ seen = {}
    /\ now = 0
    /\ lastCall = NoCall
    /\ agentTools = [a \in AgentNames |-> <<>>]
    /\ registry = Registered(agentTools)
    /\ connections = {}
    /\ hasStore = TRUE
    /\ disk = <<DueJob, DueJobA2>>
    /\ uuids = 0
    /\ pkg \in {"hive", "openbuden"}
    /\ bots = NoBots
    /\ om = [s \in Slots |-> Idle]
    /\ route = NoRoute
    /\ calls = 0
    /\ sched = NotStarted
    /\ firings = <<>>
    /\ crashes = 0

\* What the completion service answers to a task: nothing, or a plain text
LiveResults == {ChatFailed, [ok |-> TRUE, text |-> Text(<<"yes">>, NoCallW)]}

LiveNext ==
    \/ SchedStart
    \/ SchedSkip
    \/ SchedFire
    \/ OmReplyWith("sched", LiveResults)
    \/ SchedPersist
    \/ SchedDie
    \/ SchedSleep
    \/ SchedWake
    \/ Tick
    \/ \E a \in AgentNames : LiveRemove(a)
    \/ \E a \in AgentNames : LiveAdd(a)

SpecLive == LiveInit /\ [][LiveNext]_vars

\* C36: the runner invokes the callback only for a job that is in the store:
\* a job that remove_job has removed is not fired afterwards.
C36_RemovedNeverFired ==
    [][ Len(firings') > Len(firings) =>
            firings'[Len(firings')].job_id \in IdsOf(disk) ]_vars

\* The runner writes back the job at position sched.i of the tick's list.
Persists == sched.i \notin sched.persisted /\ sched'.persisted = sched.persisted \cup {sched.i}

\* The records of the file after the write are those before it, but for the
\* next-run of the record with the id of job.
OnlyNextRunOf(job, before, after) ==
    /\ Len(after) = Len(before)
    /\ \A i \in 1..Len(before) :
          IF before[i].job_id = job.job_id
          THEN after[i] = [before[i] EXCEPT !.next_run = after[i].next_run]
          ELSE after[i] = before[i]

\* C37: when the runner persists the new next-run of a fired job, the store
\* (as load_jobs reads it) changes in that job's record only: jobs added while
\* the callback ran are still there, a job removed meanwhile is not created
\* again, and the other jobs keep every field.
C37_PersistFrame ==
    [][ IF Persists
        THEN OnlyNextRunOf(sched.jobs[sched.i], load_jobs(disk), load_jobs(disk'))
        ELSE TRUE ]_vars

\* In the first tick the job fired first has been removed and another job has
\* been added while its callback ran, and the runner has written it back.
C37_Witness ==
    /\ sched.pc = "scan"
    /\ sched.now = 0
    /\ sched.i = 2
    /\ 1 \in sched.persisted
    /\ sched.jobs[1].job_id \notin IdsOf(disk)
    /\ "j1" \in IdsOf(disk)
    /\ "k4" \in IdsOf(disk)

----------------------------------------------------------------------------
(* Stopping the runner *)

\* ScheduleRunner.stop is called after start_all has created the runner's
\* task and before run has begun to execute: the flag, still False, is set
\* to False.
SchedStopEarly ==
    /\ sched.pc = "new"
    /\ sched.stopAt = "never"
    /\ sched' = [sched EXCEPT !.running = FALSE, !.stopAt = "new"]
    /\ UNCHANGED <<ctxState, now, lastCall, toolState, agentState, firings,
                   crashes>>

StopNext ==
    \/ SchedStart
    \/ SchedSkip
    \/ SchedFire
    \/ SchedFireUnknown
    \/ OmReplyWith("sched", LiveResults)
    \/ SchedPersist
    \/ SchedDie
    \/ SchedSleep
    \/ SchedWake
    \/ SchedStop
    \/ SchedStopEarly
    \/ Tick

SpecStop == SchedInit /\ [][StopNext]_vars

\* stop() has been called.
StopRequested == sched.stopAt # "never"

\* C38: a stop request is never lost: once stop() has been called, at any
\* time from the creation of the runner's task on, no tick begins any more
\* (so no job is fired in a tick that begins after the call).
C38_StopNeverLost ==
    [][ (StopRequested /\ sched.pc \in {"new", "sleep"}) => sched'.pc # "scan" ]_vars

----------------------------------------------------------------------------
(* A callback that raises *)

\* The callback the runner awaits has raised.
CallbackRaised ==
    /\ sched.pc = "await"
    /\ om["sched"].pc = "done"
    /\ om["sched"].result.kind = "raise"

\* C39: when the callback of a due job has raised, the runner goes on with
\* the next job of the tick: the loop is not ended by the failure.
C39_FailureIsolated ==
    [][ (CallbackRaised /\ sched' # sched) =>
            (sched'.pc = "scan" /\ sched'.i = sched.i + 1) ]_vars

----------------------------------------------------------------------------
(* The completion request of a reply *)

\* The inbound message of coroutine t as the history projects it, and as
\* build_messages appends it
Projected(t) == [role |-> "user", content |-> [author |-> t.sender, body |-> t.message]]
NewMessage(t) == [role |-> "user", content |-> [author |-> NoneV, body |-> t.message]]

\* The request is the system prompt, a history part, and the new message;
\* the history part does not end with the new message.
OnceInRequest(t) ==
    LET p == t.prompt
    IN IF Len(p) < 2 THEN FALSE
       ELSE /\ p[1].role = "system"
            /\ p[Len(p)] = NewMessage(t)
            /\ \A i \in 2..(Len(p) - 1) : p[i].role # "system"
            /\ IF Len(p) = 2 THEN TRUE ELSE p[Len(p) - 1] # Projected(t)

\* C40: the completion request of a reply is the system prompt, the
\* projected history and the new inbound message, and the inbound message is
\* in it once: it is not the last entry of the history part as well.
C40_MessageOnce ==
    \A s \in AgentNames : om[s].pc = "reply" => OnceInRequest(om[s])

============================================================================
